---- MODULE Spec2Model ----
(***************************************************************************)
(* A model of scripts/parallel_emerge.py: the dependency-graph builder     *)
(* (DepGraphGenerator.GenDependencyGraph) and the job scheduler            *)
(* (EmergeQueue) with its worker pool, as one state machine.               *)
(*                                                                         *)
(* A package is a string.  A node of deps_map is a record                  *)
(*   [action, needs, provides, nodeps, binary, idx, tprovides].            *)
(* The value stored under needs[dep] in the source ("/".join(dep_types))   *)
(* is only ever printed, so needs is modelled as the set of its keys.      *)
(* Python dicts and sets are iterated in an order the program does not     *)
(* control; the model iterates them in the order hashorder, which Init     *)
(* picks.                                                                  *)
(***************************************************************************)
EXTENDS Integers, Sequences, FiniteSets, TLC

VARIABLES
    deps_tree,     \* GenDependencyTree's deps_tree: pkg -> [action, deps]
    deps_info,     \* GenDependencyTree's deps_info: pkg -> idx (install order)
    binpkg,        \* package_db: pkg -> "ebuild" | "binary" | "binary_phases"
    hashorder,     \* iteration order of dicts and sets
    opt_jobs,      \* emerge.opts["--jobs"]
    opt_pretend,   \* "--pretend" in emerge.opts
    load_avg,      \* self._load_avg (0 models None, which is falsy too)
    loadavg,       \* os.getloadavg()[0], the environment's 1-minute load
    pc,            \* where the program is
    deps_map,      \* deps_map / self._deps_map
    ready,         \* self._ready, the heap, as a bag: pkg -> number of entries
    jobs,          \* self._jobs: pkg -> "None" | "job"
    retry_queue,   \* self._retry_queue
    failed,        \* self._failed
    retried,       \* Run's local set retried
    procs,         \* self._procs
    emerge_queue,  \* self._emerge_queue, the task channel
    job_queue,     \* self._job_queue, the result channel
    running,       \* packages a worker is installing: pkg -> number of workers
    tries,         \* Run's timeout counter i of "for i in range(3)"
    print_queue,   \* self._print_queue, the print channel
    printer,       \* self._print_worker: "none", "run" or "exited"
    printing,      \* the lines the printer has still to print of its message
    pool,          \* self._pool: the workers still inside EmergeWorker
    closed,        \* how often close() was called on each channel
    exit_pc,       \* where _Exit is: "none", "join", "print_join", "returned"
    killed,        \* KILLED, the event all processes share
    handlers,      \* process -> signal -> "none" | "exit" | "kill"
    sig_pc,        \* the scheduler's ExitHandler: "none" or "join"
    sig_log,       \* history: the signals delivered, as <<process, signal>>
    emerge_worker, \* one EmergeWorker process, statement by statement
    job_log,       \* one job's log file, its writer and its readers
    graph0,        \* history: the graph GenDependencyGraph returned
    post_log,      \* history: the packages put on the task channel, in order
    hist           \* history: facts recorded while the handlers ran

vars == <<deps_tree, deps_info, binpkg, hashorder, opt_jobs, opt_pretend,
          load_avg, loadavg,
          pc, deps_map, ready, jobs, retry_queue, failed, retried,
          procs, emerge_queue, job_queue, running, tries, print_queue,
          printer, printing, pool, closed, exit_pc, killed, handlers, sig_pc,
          sig_log, emerge_worker, job_log,
          graph0, post_log, hist>>

-----------------------------------------------------------------------------
(* Packages and orders *)

PkgSeq == <<"A", "B", "C", "D">>

Pkgs == {PkgSeq[i] : i \in 1..Len(PkgSeq)}

\* Position of a package in the string order of package names (sorted(),
\* tuple comparison).
Rank(p) == CHOOSE i \in 1..Len(PkgSeq) : PkgSeq[i] = p

\* The elements of set S in the order of sequence ord.
InOrder(S, ord) == SelectSeq(ord, LAMBDA x : x \in S)

Range(s) == {s[i] : i \in 1..Len(s)}

Min2(a, b) == IF a < b THEN a ELSE b

\* F applied to the value of x.  x is evaluated once here, where a name
\* defined with LET is evaluated again at each of its uses.
Let(x, F(_)) == CHOOSE r \in {F(v) : v \in {x}} : TRUE

Let2(x, y, F(_, _)) == CHOOSE r \in {F(v, w) : v \in {x}, w \in {y}} : TRUE

NoIdx == 0 - 1

EmptyMap == [p \in {} |-> 0]

-----------------------------------------------------------------------------
(* GenDependencyGraph: ReverseTree *)

\* Mutant: runtime_post dependencies order the packages too.
needed_dep_types_post == {"blocker", "buildtime", "runtime", "runtime_post"}

\* Line 585.
needed_dep_types == {"blocker", "buildtime", "runtime"}

default_pkg(action) ==
    [action |-> action, needs |-> {}, provides |-> {}, nodeps |-> FALSE,
     binary |-> FALSE, idx |-> NoIdx, tprovides |-> {}]

\* Lines 589-606: create or fetch the entry of pkg, set idx, binary, nodeps.
VisitPkg(dm, pkg, action, info, db) ==
    LET e0 == IF pkg \in DOMAIN dm THEN dm[pkg] ELSE default_pkg(action)
        e1 == IF pkg \in DOMAIN info THEN [e0 EXCEPT !.idx = info[pkg]] ELSE e0
        e2 == IF pkg \in DOMAIN db /\ db[pkg] \in {"binary", "binary_phases"}
              THEN [e1 EXCEPT !.binary = TRUE,
                              !.nodeps = IF db[pkg] = "binary" THEN TRUE ELSE @]
              ELSE e1
    IN  [q \in DOMAIN dm \cup {pkg} |-> IF q = pkg THEN e2 ELSE dm[q]]

\* Line 609: ReverseTree(packages[pkg]["deps"]); the entries of a deps dict
\* have deps = {} (line 514), so the nested call only visits them.
RECURSIVE VisitDeps(_, _, _, _, _)
VisitDeps(dm0, deps, todo0, info, db) ==
    Let2(dm0, todo0, LAMBDA dm, todo :
      IF todo = <<>> THEN dm
      ELSE VisitDeps(VisitPkg(dm, Head(todo), deps[Head(todo)].action, info, db),
                     deps, Tail(todo), info, db))

\* Lines 612-628: the edges of pkg, and the blocker rule.
RECURSIVE AddDeps(_, _, _, _)
AddDeps(dm0, pkg, deps, todo0) ==
    Let2(dm0, todo0, LAMBDA dm, todo :
      IF todo = <<>> THEN dm
      ELSE
        LET dep == Head(todo)
            dep_types == deps[dep].deptypes
            dm1 == IF needed_dep_types \cap dep_types # {}
                   THEN [q \in DOMAIN dm |->
                          LET a == IF q = dep
                                   THEN [dm[q] EXCEPT !.provides = @ \cup {pkg}]
                                   ELSE dm[q]
                          IN  IF q = pkg THEN [a EXCEPT !.needs = @ \cup {dep}]
                              ELSE a]
                   ELSE dm
            dm2 == IF "blocker" \in dep_types
                   THEN [dm1 EXCEPT ![pkg].nodeps = FALSE]
                   ELSE dm1
        IN  AddDeps(dm2, pkg, deps, Tail(todo)))

\* One iteration of ReverseTree's loop over the top-level packages.
ReverseTreePkg(dm, tree, pkg, info, db, ord) ==
    Let2(tree[pkg].deps, VisitPkg(dm, pkg, tree[pkg].action, info, db),
         LAMBDA deps, dm1 :
           Let(InOrder(DOMAIN deps, ord), LAMBDA todo :
             AddDeps(VisitDeps(dm1, deps, todo, info, db), pkg, deps, todo)))

-----------------------------------------------------------------------------
(* GenDependencyGraph: RemoveUnusedPackages *)

\* Mutant: the node is deleted with its edges, nothing is handed on.
ContractPkgDrop(dm, pkg) ==
    [q \in DOMAIN dm \ {pkg} |->
      [dm[q] EXCEPT !.provides = @ \ {pkg}, !.needs = @ \ {pkg}]]

\* Lines 682-695 for one package: contract the node pkg out of the graph.
\* Inside the first loop "provides" is the node's own set, which the
\* iteration dep = pkg (a self-loop) shrinks by pkg.
ContractPkg(dm, pkg) ==
    LET needs == dm[pkg].needs
        provides0 == dm[pkg].provides
        provides == IF pkg \in needs THEN provides0 \ {pkg} ELSE provides0
    IN  [q \in DOMAIN dm \ {pkg} |->
          [dm[q] EXCEPT
             !.provides = IF q \in needs
                          THEN ((@ \cup provides0) \ {pkg}) \ {q} ELSE @,
             !.needs = IF q \in provides
                       THEN ((@ \cup needs) \ {pkg}) \ {q} ELSE @]]

RECURSIVE ContractAll(_, _)
ContractAll(dm0, todo0) ==
    Let2(dm0, todo0, LAMBDA dm, todo :
      IF todo = <<>> THEN dm
      ELSE ContractAll(ContractPkg(dm, Head(todo)), Tail(todo)))

\* Lines 677-681: rm_pkgs, visited in sorted order.
RemoveUnusedPackagesOp(dm, info) ==
    ContractAll(dm, InOrder(DOMAIN dm \ DOMAIN info, PkgSeq))

-----------------------------------------------------------------------------
(* GenDependencyGraph: FindCycles *)

\* The search state is [cycles, unresolved, resolved].  cycles is kept as
\* the set of its key pairs <<pkg1, pkg2>>; the example traversal stored
\* under them is only printed.

IndexOf(s, x) == CHOOSE i \in 1..Len(s) : s[i] = x

\* Lines 658-662: record every edge of the cycle that closes at dep.
CycleEdges(unresolved, dep) ==
    LET idx == IndexOf(unresolved, dep)
        mycycle == SubSeq(unresolved, idx, Len(unresolved)) \o <<dep>>
    IN  {<<mycycle[i], mycycle[i + 1]>> : i \in 1..(Len(mycycle) - 1)}

RECURSIVE FindCyclesAtNode(_, _, _, _)
RECURSIVE FindCyclesDeps(_, _, _, _, _, _)

\* Lines 656-665: the loop over the needs of pkg.  had_cycles says whether
\* pkg_cycles, fetched on entry, is a dict: if it is, it is the dict the
\* search keeps filling; if it is None it stays None for this call.
FindCyclesDeps(dm, pkg, had_cycles, todo0, st0, ord) ==
    Let2(todo0, st0, LAMBDA todo, st :
      IF todo = <<>> THEN st
      ELSE
        LET dep == Head(todo)
            st1 == IF dep \in Range(st.unresolved)
                   THEN [st EXCEPT !.cycles =
                           @ \cup CycleEdges(st.unresolved, dep)]
                   ELSE IF ~had_cycles \/ <<pkg, dep>> \notin st.cycles
                        THEN FindCyclesAtNode(dm, dep, st, ord)
                        ELSE st
        IN  FindCyclesDeps(dm, pkg, had_cycles, Tail(todo), st1, ord))

\* Lines 650-667.
FindCyclesAtNode(dm, pkg, st0, ord) ==
    Let(st0, LAMBDA st :
      LET had_cycles == \E e \in st.cycles : e[1] = pkg
      IN  IF pkg \in st.resolved /\ ~had_cycles THEN st
          ELSE
            LET st1 == [st EXCEPT !.unresolved = Append(@, pkg)]
                st2 == FindCyclesDeps(dm, pkg, had_cycles,
                                      InOrder(dm[pkg].needs, ord), st1, ord)
            IN  [st2 EXCEPT !.unresolved = SubSeq(@, 1, Len(@) - 1),
                            !.resolved = @ \cup {pkg}])

RECURSIVE FindCyclesFrom(_, _, _, _)
FindCyclesFrom(dm, todo0, st0, ord) ==
    Let2(todo0, st0, LAMBDA todo, st :
      IF todo = <<>> THEN st
      ELSE FindCyclesFrom(dm, Tail(todo),
                          FindCyclesAtNode(dm, Head(todo), st, ord), ord))

\* Mutant: the search starts at the first package only.
FindCyclesFirstOnly(dm, ord) ==
    FindCyclesFrom(dm, InOrder({Head(InOrder(DOMAIN dm \cup {Head(ord)}, ord))}
                                 \cap DOMAIN dm, ord),
                   [cycles |-> {}, unresolved |-> <<>>, resolved |-> {}],
                   ord).cycles

\* Lines 669-672.
FindCycles(dm, ord) ==
    FindCyclesFrom(dm, InOrder(DOMAIN dm, ord),
                   [cycles |-> {}, unresolved |-> <<>>, resolved |-> {}],
                   ord).cycles

-----------------------------------------------------------------------------
(* GenDependencyGraph: SanitizeTree *)

\* Mutant: every edge of the found cycles is deleted.
EdgesToBreakAll(dm, cycles) == cycles

\* Line 741: the edges of the found cycles that go against the install
\* order; cycle edge <<dep, basedep>> means dep needs basedep.
EdgesToBreak(dm, cycles) ==
    {e \in cycles : dm[e[2]].idx >= dm[e[1]].idx}

\* Line 745: set.remove raises KeyError when basedep's provides has no
\* entry dep for an edge that is to be broken.
BreakRaises(dm, edges) ==
    \E e \in edges : e[1] \notin dm[e[2]].provides

\* Mutant: the edge is deleted from needs and left in provides.
BreakEdgesNeedsOnly(dm, edges) ==
    [q \in DOMAIN dm |->
      [dm[q] EXCEPT !.needs = @ \ {e[2] : e \in {x \in edges : x[1] = q}}]]

\* Lines 744-745 for every edge to break.
BreakEdges(dm, edges) ==
    [q \in DOMAIN dm |->
      [dm[q] EXCEPT
         !.needs = @ \ {e[2] : e \in {x \in edges : x[1] = q}},
         !.provides = @ \ {e[1] : e \in {x \in edges : x[2] = q}}]]

-----------------------------------------------------------------------------
(* GenDependencyGraph: FindRecursiveProvides *)

\* A visit that stops at the package's own provides.
FindRecursiveProvidesDirect(pkg, st0, ord) ==
    Let(st0, LAMBDA st :
      IF pkg \in st.seen THEN st
      ELSE [dm |-> [st.dm EXCEPT ![pkg].tprovides = st.dm[pkg].provides],
            seen |-> st.seen \cup {pkg}])

\* The state is [dm, seen].
RECURSIVE FindRecursiveProvides(_, _, _)
RECURSIVE FindRecursiveProvidesDeps(_, _, _, _)

\* Lines 765-767.
FindRecursiveProvidesDeps(pkg, todo0, st0, ord) ==
    Let2(todo0, st0, LAMBDA todo, st :
      IF todo = <<>> THEN st
      ELSE
        LET dep == Head(todo)
        IN  Let(FindRecursiveProvides(dep, st, ord), LAMBDA st1 :
              FindRecursiveProvidesDeps(
                pkg, Tail(todo),
                [st1 EXCEPT !.dm[pkg].tprovides = @ \cup st1.dm[dep].tprovides],
                ord)))

\* Lines 760-767.
FindRecursiveProvides(pkg, st0, ord) ==
    Let(st0, LAMBDA st :
      IF pkg \in st.seen THEN st
      ELSE
        LET provides == st.dm[pkg].provides
            st1 == [dm |-> [st.dm EXCEPT ![pkg].tprovides = provides],
                    seen |-> st.seen \cup {pkg}]
        IN  FindRecursiveProvidesDeps(pkg, InOrder(provides, ord), st1, ord))

RECURSIVE FindRecursiveProvidesFrom(_, _, _)
FindRecursiveProvidesFrom(todo0, st0, ord) ==
    Let2(todo0, st0, LAMBDA todo, st :
      IF todo = <<>> THEN st
      ELSE FindRecursiveProvidesFrom(Tail(todo),
                                     FindRecursiveProvides(Head(todo), st, ord),
                                     ord))

\* Lines 775-777.
AllRecursiveProvides(dm, ord) ==
    FindRecursiveProvidesFrom(InOrder(DOMAIN dm, ord),
                              [dm |-> dm, seen |-> {}], ord).dm

-----------------------------------------------------------------------------
(* EmergeQueue: the handlers, as operators on the scheduler's state        *)
(*   st = [dm, ready, jobs, eq, rq, log, h, err, ret]                      *)
(* dm is self._deps_map, ready self._ready, jobs self._jobs, eq            *)
(* self._emerge_queue, rq self._retry_queue; log and h are the history     *)
(* variables post_log and hist; err says that the handler raised KeyError; *)
(* ret is the value _Schedule returned.                                    *)

\* For all nodes p, q of the graph: q in needs[p] iff p in provides[q].
EdgeSymmetric(dm) ==
    \A p \in DOMAIN dm : \A q \in DOMAIN dm :
        (q \in dm[p].needs) <=> (p \in dm[q].provides)

\* Lines 1169, 1298: the heap entry (score, target) of a package.
ReadyEntry(info, target) ==
    [score |-> <<0 - Cardinality(info.tprovides),
                 IF info.binary THEN 1 ELSE 0,
                 info.idx>>,
     pkg |-> target]

\* Python's comparison of two heap entries (tuples, then the target string).
EntryLess(a, b) ==
    \/ a.score[1] < b.score[1]
    \/ a.score[1] = b.score[1] /\ a.score[2] < b.score[2]
    \/ a.score[1] = b.score[1] /\ a.score[2] = b.score[2]
       /\ a.score[3] < b.score[3]
    \/ a.score = b.score /\ Rank(a.pkg) < Rank(b.pkg)

\* Mutant: the entry is appended, the list is no heap.
HeapPushLast(heap0, e0) == Append(heap0, e0)

\* heapq.heappush: the heap is kept as the sorted sequence of its entries,
\* so that heappop takes its head.
RECURSIVE HeapPush(_, _)
HeapPush(heap0, e0) ==
    Let2(heap0, e0, LAMBDA heap, e :
      IF heap = <<>> THEN <<e>>
      ELSE IF EntryLess(e, Head(heap)) THEN <<e>> \o heap
      ELSE <<Head(heap)>> \o HeapPush(Tail(heap), e))

RECURSIVE Heapify(_)
Heapify(entries0) ==
    Let(entries0, LAMBDA entries :
      IF entries = <<>> THEN <<>>
      ELSE HeapPush(Heapify(Tail(entries)), Head(entries)))

\* Mutant: the key stays.
RemoveKeyNone(f, k) == f

RemoveKey(f, k) == [x \in DOMAIN f \ {k} |-> f[x]]

\* Lines 1015-1022: the message that prints one line.
LinePrinter(line) == <<"line", line>>

\* Lines 1025-1080: the message that prints the log of the job of target,
\* and with unlink deletes the log afterwards.
JobPrinter(target, unlink) == <<IF unlink THEN "flush" ELSE "job", target>>

\* Lines 1237-1239.
PrintLine(st, line) == [st EXCEPT !.pq = Append(@, LinePrinter(line))]

\* Lines 1241-1281, in a run where no job has been running for as long as
\* the shortest interval of lines 1249-1254 (a minute): the general line.
Status(st) == PrintLine(st, "Pending")

SetKey(f, k, v) == [x \in DOMAIN f \cup {k} |-> IF x = k THEN v ELSE f[x]]

RECURSIVE Finish(_, _, _)
RECURSIVE FinishProvides(_, _, _, _)

\* Mutant: a successor is pushed as soon as one of its needs is finished.
FinishProvidesEager(st0, target, todo, ord) ==
    Let(st0, LAMBDA st :
      IF todo = <<>> \/ st.err THEN st
      ELSE
        LET dep == Head(todo)
        IN  IF dep \notin DOMAIN st.dm \/ target \notin st.dm[dep].needs
            THEN [st EXCEPT !.err = TRUE]
            ELSE
              LET dm1 == [st.dm EXCEPT ![dep].needs = @ \ {target}]
                  dep_pkg == dm1[dep]
                  st1 == [st EXCEPT !.dm = dm1]
                  st2 == IF dep_pkg.needs = {} /\ dep_pkg.nodeps
                            /\ dep_pkg.action = "nomerge"
                         THEN Finish(st1, dep, ord)
                         ELSE [st1 EXCEPT !.ready =
                                 HeapPush(@, ReadyEntry(dep_pkg, dep))]
              IN  FinishProvides(st2, target, Tail(todo), ord))

\* Mutant: a nodeps successor without needs is finished whatever its action.
FinishProvidesAnyAction(st0, target, todo, ord) ==
    Let(st0, LAMBDA st :
      IF todo = <<>> \/ st.err THEN st
      ELSE
        LET dep == Head(todo)
        IN  IF dep \notin DOMAIN st.dm \/ target \notin st.dm[dep].needs
            THEN [st EXCEPT !.err = TRUE]
            ELSE
              LET dm1 == [st.dm EXCEPT ![dep].needs = @ \ {target}]
                  dep_pkg == dm1[dep]
                  st1 == [st EXCEPT !.dm = dm1]
                  st2 == IF dep_pkg.needs # {} THEN st1
                         ELSE IF dep_pkg.nodeps
                              THEN Finish(st1, dep, ord)
                              ELSE [st1 EXCEPT !.ready =
                                      HeapPush(@, ReadyEntry(dep_pkg, dep))]
              IN  FinishProvides(st2, target, Tail(todo), ord))

\* Lines 1291-1300: the loop over the packages target provides.
FinishProvides(st0, target, todo, ord) ==
    Let(st0, LAMBDA st :
      IF todo = <<>> \/ st.err THEN st
      ELSE
        LET dep == Head(todo)
        IN  IF dep \notin DOMAIN st.dm \/ target \notin st.dm[dep].needs
            THEN [st EXCEPT !.err = TRUE]
            ELSE
              LET dm1 == [st.dm EXCEPT ![dep].needs = @ \ {target}]
                  dep_pkg == dm1[dep]
                  st1 == [st EXCEPT !.dm = dm1]
                  st2 == IF dep_pkg.needs # {} THEN st1
                         ELSE IF dep_pkg.nodeps /\ dep_pkg.action = "nomerge"
                              THEN Finish(st1, dep, ord)
                              ELSE [st1 EXCEPT !.ready =
                                      HeapPush(@, ReadyEntry(dep_pkg, dep))]
              IN  FinishProvides(st2, target, Tail(todo), ord))

\* Mutant: no first branch, a finished package always leaves the graph.
FinishNoDemote(st0, target, ord) ==
    Let(st0, LAMBDA st :
      IF st.err THEN st
      ELSE IF target \notin DOMAIN st.dm THEN [st EXCEPT !.err = TRUE]
      ELSE
        Let(FinishProvides(st, target,
                           InOrder(st.dm[target].provides, ord), ord),
            LAMBDA st2 :
              IF st2.err THEN st2
              ELSE [st2 EXCEPT !.dm = RemoveKey(@, target)]))

\* Mutant: a nodeps package with needs left keeps its action.
FinishStaysMerge(st0, target, ord) ==
    Let(st0, LAMBDA st :
      IF st.err THEN st
      ELSE IF target \notin DOMAIN st.dm THEN [st EXCEPT !.err = TRUE]
      ELSE
        LET this_pkg == st.dm[target]
        IN  IF this_pkg.needs # {} /\ this_pkg.nodeps
            THEN st
            ELSE Let(FinishProvides(st, target,
                                    InOrder(this_pkg.provides, ord), ord),
                     LAMBDA st2 :
                       IF st2.err THEN st2
                       ELSE [st2 EXCEPT !.dm = RemoveKey(@, target)]))

\* What a call of Finish for target did to the graph, from dm to dm1:
\* whether it found the target nodeps with needs left (early), whether the
\* target was a nomerge node, by how much the graph shrank, how many
\* actions became nomerge, and whether the target is gone.
FinishEffect(dm, dm1, target) ==
    [early |-> dm[target].needs # {} /\ dm[target].nodeps,
     nomerge |-> dm[target].action = "nomerge",
     shrink |-> Cardinality(DOMAIN dm) - Cardinality(DOMAIN dm1),
     demoted |-> Cardinality({q \in DOMAIN dm \cap DOMAIN dm1 :
                               /\ dm[q].action # "nomerge"
                               /\ dm1[q].action = "nomerge"}),
     gone |-> target \notin DOMAIN dm1]

\* Lines 1282-1301.  On return the call notes in h.finish_asym whether it
\* left the graph with an edge recorded on one side only.
Finish(st0, target, ord) ==
    Let(st0, LAMBDA st :
      IF st.err THEN st
      ELSE IF target \notin DOMAIN st.dm THEN [st EXCEPT !.err = TRUE]
      ELSE
        LET this_pkg == st.dm[target]
        IN  Let(IF this_pkg.needs # {} /\ this_pkg.nodeps
                THEN [st EXCEPT !.dm[target].action = "nomerge",
                                !.h.demoted = @ \cup {target}]
                ELSE Let(FinishProvides(st, target,
                                        InOrder(this_pkg.provides, ord), ord),
                         LAMBDA st2 :
                           IF st2.err THEN st2
                           ELSE [st2 EXCEPT !.dm = RemoveKey(@, target)]),
                LAMBDA st1 :
                  [st1 EXCEPT
                     !.h.finish_asym = @ \/ ~EdgeSymmetric(st1.dm),
                     !.h.finish_effects =
                        IF st1.err THEN @
                        ELSE @ \cup {FinishEffect(st.dm, st1.dm, target)}]))

\* Lines 1219-1221: reserve the job and put the target on the task channel.
\* The history notes whether the post was premature (needs left and not
\* nodeps), whether a package it needed in graph0 is still in the graph,
\* whether the target is a nomerge node, and whether an install of the
\* target has already ended with exit code 0.
PostTarget(st, target, g0) ==
    LET this_pkg == st.dm[target]
    IN  [st EXCEPT
           !.jobs = SetKey(@, target, "None"),
           !.eq = Append(@, target),
           !.ret = TRUE,
           !.log = Append(@, target),
           !.h.premature = IF this_pkg.needs # {} /\ ~this_pkg.nodeps
                           THEN @ \cup {target} ELSE @,
           !.h.early = IF ~this_pkg.nodeps /\ target \in DOMAIN g0
                          /\ g0[target].needs \cap DOMAIN st.dm # {}
                       THEN @ \cup {target} ELSE @,
           !.h.nomerge_posts = IF this_pkg.action = "nomerge"
                               THEN @ \cup {target} ELSE @,
           !.h.reposts = IF target \in st.h.installed
                         THEN @ \cup {target} ELSE @]

\* Line 1216, _Finish called by _Schedule for a nomerge node.  The history
\* notes the target, and whether the call returned with the target still
\* in the graph although it was not a nodeps node with needs left.
FinishNomerge(st, target, ord) ==
    Let(Finish(st, target, ord), LAMBDA st1 :
      [st1 EXCEPT
         !.h.nomerge_sched = @ \cup {target},
         !.h.nomerge_kept =
            IF ~st1.err /\ target \in DOMAIN st1.dm
                  /\ ~(st.dm[target].needs # {} /\ st.dm[target].nodeps)
            THEN @ \cup {target} ELSE @])

\* Mutant: a nomerge node is posted like any other.
ScheduleNomerge(st0, target, g0, ord) ==
    Let([st0 EXCEPT !.ret = FALSE], LAMBDA st :
      IF target \notin DOMAIN st.dm THEN st
      ELSE IF target \notin DOMAIN st.jobs THEN PostTarget(st, target, g0)
      ELSE st)

\* Mutant: the target is posted whether or not it is in jobs.
ScheduleAgain(st0, target, g0, ord) ==
    Let([st0 EXCEPT !.ret = FALSE], LAMBDA st :
      IF target \notin DOMAIN st.dm THEN st
      ELSE IF st.dm[target].action = "nomerge"
           THEN FinishNomerge(st, target, ord)
      ELSE PostTarget(st, target, g0))

\* Lines 1206-1221.
Schedule(st0, target, g0, ord) ==
    Let([st0 EXCEPT !.ret = FALSE], LAMBDA st :
      IF target \notin DOMAIN st.dm THEN st
      ELSE IF st.dm[target].action = "nomerge"
           THEN FinishNomerge(st, target, ord)
      ELSE IF target \notin DOMAIN st.jobs THEN PostTarget(st, target, g0)
      ELSE st)

\* Mutant: one job more than procs.
NeededJobsPlusOne(cap, load, nprocs) ==
    IF cap # 0 /\ load > cap THEN 1 ELSE nprocs + 1

\* Mutant: the load is not looked at.
NeededJobsNoLoad(cap, load, nprocs) == nprocs

\* Lines 1226-1229.
NeededJobs(cap, load, nprocs) ==
    IF cap # 0 /\ load > cap THEN 1 ELSE nprocs

\* Tuple comparison of two scores (-len(tprovides), binary, idx).
ScoreLess(a, b) ==
    \/ a[1] < b[1]
    \/ a[1] = b[1] /\ a[2] < b[2]
    \/ a[1] = b[1] /\ a[2] = b[2] /\ a[3] < b[3]

\* The score of line 1169 for package p of the graph g0.
ScoreOf(g0, p) == ReadyEntry(g0[p], p).score

\* What line 1233 is about to pop from heap: whether no entry of the heap
\* has a smaller score in g0, whether the package was absent from the
\* initial heap (so that _Finish pushed the entry), and whether some entry
\* has a greater score.
PopFact(heap, g0) ==
    LET pkg == Head(heap).pkg
    IN  <<\A i \in 1..Len(heap) :
             ~ScoreLess(ScoreOf(g0, heap[i].pkg), ScoreOf(g0, pkg)),
          ~(g0[pkg].nodeps \/ g0[pkg].needs = {}),
          \E i \in 1..Len(heap) :
             ScoreLess(ScoreOf(g0, pkg), ScoreOf(g0, heap[i].pkg))>>

\* Why the pop of pkg leads to no post although pkg is a package to merge:
\* it is in failed (line 1234) or it is in jobs (line 1217).
SkipFact(st, pkg, fail) ==
    IF pkg \in fail THEN {"failed"}
    ELSE IF pkg \in DOMAIN st.dm /\ st.dm[pkg].action # "nomerge"
            /\ pkg \in DOMAIN st.jobs
         THEN {"jobs"} ELSE {}

\* Mutant: a popped package is scheduled whether or not it is in failed.
RECURSIVE ScheduleWhileFailed(_, _, _, _, _, _)
ScheduleWhileFailed(st0, needed_jobs, over, fail, g0, ord) ==
    Let(st0, LAMBDA st :
      IF st.err \/ st.ready = <<>>
            \/ ~(Cardinality(DOMAIN st.jobs) < needed_jobs)
      THEN st
      ELSE
        LET pkg == Head(st.ready).pkg
            st1 == [st EXCEPT !.ready = Tail(@),
                              !.h.pops = @ \cup {PopFact(st.ready, g0)},
                              !.h.skips = @ \cup SkipFact(st, pkg, fail)]
        IN  Let(Schedule(st1, pkg, g0, ord),
                LAMBDA st2 :
                  ScheduleWhileFailed(IF over /\ st2.log # st.log
                                THEN [st2 EXCEPT !.h.over_posts =
                                        @ \cup {Cardinality(DOMAIN st2.jobs)}]
                                ELSE st2,
                                needed_jobs, over, fail, g0, ord)))

\* Lines 1232-1235.  over says that this call read a load above the cap;
\* the history notes the size of jobs after each post made under it, and
\* for each pop its PopFact and its SkipFact.
RECURSIVE ScheduleWhile(_, _, _, _, _, _)
ScheduleWhile(st0, needed_jobs, over, fail, g0, ord) ==
    Let(st0, LAMBDA st :
      IF st.err \/ st.ready = <<>>
            \/ ~(Cardinality(DOMAIN st.jobs) < needed_jobs)
      THEN st
      ELSE
        LET pkg == Head(st.ready).pkg
            st1 == [st EXCEPT !.ready = Tail(@),
                              !.h.pops = @ \cup {PopFact(st.ready, g0)},
                              !.h.skips = @ \cup SkipFact(st, pkg, fail)]
        IN  Let(IF pkg \notin fail THEN Schedule(st1, pkg, g0, ord) ELSE st1,
                LAMBDA st2 :
                  ScheduleWhile(IF over /\ st2.log # st.log
                                THEN [st2 EXCEPT !.h.over_posts =
                                        @ \cup {Cardinality(DOMAIN st2.jobs)}]
                                ELSE st2,
                                needed_jobs, over, fail, g0, ord)))

\* Lines 1223-1235.
ScheduleLoop(st, cap, load, nprocs, fail, g0, ord) ==
    ScheduleWhile(st, NeededJobs(cap, load, nprocs),
                  cap # 0 /\ load > cap, fail, g0, ord)

\* Mutant: no break, every queued package is retried at once.
RECURSIVE RetryAll(_, _, _)
RetryAll(st0, g0, ord) ==
    Let(st0, LAMBDA st :
      IF st.err \/ st.rq = <<>> THEN st
      ELSE
        LET target == Head(st.rq)
        IN  Let(Schedule([st EXCEPT !.rq = Tail(@)], target, g0, ord),
                LAMBDA st1 :
                  RetryAll(IF st1.ret
                           THEN PrintLine([st1 EXCEPT !.h.retry_posts =
                                              @ \cup {target}], "Retrying")
                           ELSE st1, g0, ord)))

\* Mutant: the package that is retried stays in the retry queue.
RECURSIVE RetryPeek(_, _, _)
RetryPeek(st0, g0, ord) ==
    Let(st0, LAMBDA st :
      IF st.err \/ st.rq = <<>> THEN st
      ELSE
        LET target == Head(st.rq)
        IN  Let(Schedule(st, target, g0, ord),
                LAMBDA st1 :
                  IF st1.ret
                  THEN PrintLine([st1 EXCEPT !.h.retry_posts =
                                     @ \cup {target}], "Retrying")
                  ELSE RetryPeek([st1 EXCEPT !.rq = Tail(@)], g0, ord)))

\* Lines 1303-1308.
RECURSIVE Retry(_, _, _)
Retry(st0, g0, ord) ==
    Let(st0, LAMBDA st :
      IF st.err \/ st.rq = <<>> THEN st
      ELSE
        LET target == Head(st.rq)
        IN  Let(Schedule([st EXCEPT !.rq = Tail(@)], target, g0, ord),
                LAMBDA st1 :
                  IF st1.ret
                  THEN PrintLine([st1 EXCEPT !.h.retry_posts =
                                     @ \cup {target}], "Retrying")
                  ELSE Retry(st1, g0, ord)))

-----------------------------------------------------------------------------
(* Inputs *)

MaxJobs == 2

\* The messages on the print channel the scheduler may leave unprinted
\* when it starts a handler.
MaxPending == 0

MaxLoadAvg == 1

\* The values of --jobs.
JobsOpts == 1..MaxJobs

\* The values of --load-average; 0 stands for the option not given.
LoadAvgOpts == 0..MaxLoadAvg

\* The readings of os.getloadavg()[0]: one at the largest cap, one above it.
Loads == {MaxLoadAvg, MaxLoadAvg + 1}

\* for i in range(3), line 1358.
GetAttempts == 3

\* The iteration orders Init picks from: every two packages come in both
\* relative orders.
Reverse(s) == [i \in 1..Len(s) |-> s[Len(s) + 1 - i]]

HashOrders == {PkgSeq, Reverse(PkgSeq)}

\* An input of GenDependencyGraph, written as
\*   nodes    the packages of emerge's digraph
\*   acts     package -> its operation
\*   edges    <<parent, child, deptypes>>: parent depends on child
\*   order    emerge's install list (depgraph.altlist())
\*   bin      the packages of the install list that are binary packages
\*            without setup/preinst/postinst phases
\*   binph    those that are binary packages with such a phase
\* Lines 479-519 build deps_tree from it: one top-level entry per node, and
\* under it one entry per child with the child's operation and the
\* priorities of the edge.
TreeOf(in) ==
    [p \in in.nodes |->
      [action |-> in.acts[p],
       deps |-> [c \in {e[2] : e \in {x \in in.edges : x[1] = p}} |->
                  [action |-> in.acts[c],
                   deptypes |-> UNION {e[3] : e \in
                                   {x \in in.edges : x[1] = p /\ x[2] = c}}]]]]

\* Lines 524-530: idx is the position in the install list.
InfoOf(in) ==
    [p \in Range(in.order) |-> IndexOf(in.order, p) - 1]

\* self.package_db holds the packages of the install list (line 527).
DbOf(in) ==
    [p \in Range(in.order) |->
      IF p \in in.bin THEN "binary"
      ELSE IF p \in in.binph THEN "binary_phases" ELSE "ebuild"]

Merge(nodes) == [p \in nodes |-> "merge"]

RT == {"runtime"}

BT == {"buildtime"}

BL == {"blocker"}

In(nodes, acts, edges, order, bin, binph) ==
    [nodes |-> nodes, acts |-> acts, edges |-> edges, order |-> order,
     bin |-> bin, binph |-> binph]

\* The inputs the scheduler is run on.
Scenarios ==
    { \* a chain: A needs B needs C
      In({"A", "B", "C"}, Merge({"A", "B", "C"}),
         {<<"A", "B", RT>>, <<"B", "C", BT>>}, <<"C", "B", "A">>, {}, {}),
      \* a diamond: A needs B and C, which need D
      In(Pkgs, Merge(Pkgs),
         {<<"A", "B", RT>>, <<"A", "C", RT>>, <<"B", "D", RT>>,
          <<"C", "D", BT>>}, <<"D", "B", "C", "A">>, {}, {}),
      \* A needs B, B a binary package without phases
      In({"A", "B"}, Merge({"A", "B"}),
         {<<"A", "B", RT>>}, <<"B", "A">>, {"B"}, {}),
      \* B and C need A; B is a binary package without phases, D needs B
      In(Pkgs, Merge(Pkgs),
         {<<"B", "A", RT>>, <<"C", "A", RT>>, <<"D", "B", RT>>},
         <<"A", "B", "C", "D">>, {"B"}, {}),
      \* a cycle between A and B, and C that needs B
      In({"A", "B", "C"}, Merge({"A", "B", "C"}),
         {<<"A", "B", RT>>, <<"B", "A", RT>>, <<"C", "B", RT>>},
         <<"A", "B", "C">>, {}, {"C"}),
      \* A needs B needs C, B not on the install list (nomerge)
      In({"A", "B", "C"}, [Merge({"A", "B", "C"}) EXCEPT !["B"] = "nomerge"],
         {<<"A", "B", RT>>, <<"B", "C", RT>>}, <<"C", "A">>, {}, {}),
      \* a nomerge node on the install list, an uninstall, an ignored edge
      In(Pkgs, [Merge(Pkgs) EXCEPT !["B"] = "nomerge", !["D"] = "uninstall"],
         {<<"A", "B", RT>>, <<"B", "C", RT>>, <<"A", "D", BL>>,
          <<"C", "D", {"optional"}>>}, <<"D", "C", "B", "A">>, {}, {}),
      \* a binary package with a blocker, needed by another package
      In({"A", "B", "C"}, Merge({"A", "B", "C"}),
         {<<"A", "B", BL>>, <<"C", "A", {"runtime_post"}>>,
          <<"C", "B", RT>>}, <<"B", "A", "C">>, {"A"}, {}),
      \* a cycle A, B, C, A whose edge from A to B is a blocker
      In({"A", "B", "C"}, Merge({"A", "B", "C"}),
         {<<"A", "B", BL>>, <<"B", "C", RT>>, <<"C", "A", RT>>},
         <<"A", "B", "C">>, {}, {}),
      \* B, a nomerge binary package on the install list, needs A and is
      \* needed by C
      In({"A", "B", "C"}, [Merge({"A", "B", "C"}) EXCEPT !["B"] = "nomerge"],
         {<<"B", "A", RT>>, <<"C", "B", RT>>}, <<"A", "B", "C">>, {"B"}, {}),
      \* nothing to merge
      In({"A"}, [p \in {"A"} |-> "nomerge"], {}, <<"A">>, {}, {}) }

\* A graph handed to EmergeQueue directly: its only node A needs X, which
\* is not in the graph ("D" plays X).
DanglingGraph ==
    [p \in {"A"} |-> [default_pkg("merge") EXCEPT !.needs = {"D"}, !.idx = 0]]

NoHist ==
    [premature |-> {}, early |-> {}, finish_asym |-> FALSE,
     finish_effects |-> {}, over_posts |-> {},
     retry_posts |-> {}, demoted |-> {}, failed_twice |-> {}, installed |-> {},
     direct |-> {}, pops |-> {}, skips |-> {}, nomerge_posts |-> {},
     nomerge_sched |-> {}, nomerge_kept |-> {}, reposts |-> {}]

\* The two signals the program handles.
Signals == {"SIGINT", "SIGTERM"}

\* The processes: the scheduler, the printer and the workers of the pool;
\* procs is at most the number of packages.
WorkerNames == <<"worker1", "worker2", "worker3", "worker4">>

Processes == {"scheduler", "printer"} \cup Range(WorkerNames)

\* signal.signal(SIGINT, h); signal.signal(SIGTERM, h).
Handlers(h) == [n \in Signals |-> h]

\* No channel has been closed.
NoneClosed == [emerge_queue |-> 0, print_queue |-> 0, job_queue |-> 0]

\* The worker and the log file that are looked at on their own are not
\* there.
NoWorker == [pc |-> "none"]

NoLog == [pc |-> "none"]

NoSlices == emerge_worker = NoWorker /\ job_log = NoLog

\* The part of Init every run shares.
InitRest ==
    /\ hashorder \in HashOrders
    /\ opt_jobs \in JobsOpts
    /\ load_avg \in LoadAvgOpts
    /\ loadavg \in Loads
    /\ ready = <<>>
    /\ jobs = EmptyMap
    /\ retry_queue = <<>>
    /\ failed = {}
    /\ retried = {}
    /\ procs = 0
    /\ emerge_queue = <<>>
    /\ job_queue = <<>>
    /\ running = [p \in Pkgs |-> 0]
    /\ tries = 0
    /\ print_queue = <<>>
    /\ printer = "none"
    /\ printing = <<>>
    /\ pool = 0
    /\ closed = NoneClosed
    /\ exit_pc = "none"
    /\ killed = FALSE
    /\ handlers = [q \in Processes |-> Handlers("none")]
    /\ sig_pc = "none"
    /\ sig_log = <<>>
    /\ post_log = <<>>
    /\ hist = NoHist

\* main() on the input in: GenDependencyGraph is about to run.
InitOn(in) ==
    /\ deps_tree = TreeOf(in)
    /\ deps_info = InfoOf(in)
    /\ binpkg = DbOf(in)
    /\ pc = "reverse"
    /\ deps_map = EmptyMap
    /\ graph0 = EmptyMap
    /\ opt_pretend \in BOOLEAN
    /\ NoSlices
    /\ InitRest

\* EmergeQueue(deps_map, ...) on a graph that no builder made, without
\* --pretend.
InitDirect ==
    /\ deps_tree = EmptyMap
    /\ deps_info = EmptyMap
    /\ binpkg = EmptyMap
    /\ pc = "init"
    /\ deps_map = DanglingGraph
    /\ graph0 = DanglingGraph
    /\ opt_pretend = FALSE
    /\ NoSlices
    /\ InitRest

Init == (\E in \in Scenarios : InitOn(in)) \/ InitDirect

-----------------------------------------------------------------------------
(* GenDependencyGraph, phase by phase (lines 769-778) *)

inputs == <<deps_tree, deps_info, binpkg, hashorder, opt_jobs, opt_pretend,
            load_avg>>

slices == <<emerge_worker, job_log>>

sigs == <<killed, sig_pc, sig_log>>

workers == <<printer, printing, pool, closed, exit_pc, handlers, sigs>>

sched == <<ready, jobs, retry_queue, failed, retried, procs, emerge_queue,
           job_queue, running, tries, print_queue, workers, post_log, hist>>

RECURSIVE ReverseTreeAll(_, _, _, _, _, _)
ReverseTreeAll(dm0, tree, todo0, info, db, ord) ==
    Let2(dm0, todo0, LAMBDA dm, todo :
      IF todo = <<>> THEN dm
      ELSE ReverseTreeAll(ReverseTreePkg(dm, tree, Head(todo), info, db, ord),
                          tree, Tail(todo), info, db, ord))

\* Line 769: ReverseTree(deps_tree).
ReverseTree ==
    /\ pc = "reverse"
    /\ deps_map' = ReverseTreeAll(deps_map, deps_tree,
                                  InOrder(DOMAIN deps_tree, hashorder),
                                  deps_info, binpkg, hashorder)
    /\ pc' = "prune"
    /\ UNCHANGED <<inputs, slices, loadavg, graph0, sched>>

\* Line 773.
RemoveUnusedPackages ==
    /\ pc = "prune"
    /\ deps_map' = RemoveUnusedPackagesOp(deps_map, deps_info)
    /\ pc' = "sanitize"
    /\ UNCHANGED <<inputs, slices, loadavg, graph0, sched>>

\* Line 774, one pass of SanitizeTree's loop: leave it when FindCycles
\* finds nothing, else break edges and look again.  A KeyError of line 745
\* leaves GenDependencyGraph and ends the program; the graph, a local of
\* GenDependencyGraph, is not used again.
SanitizeTree ==
    /\ pc = "sanitize"
    /\ \E cycles \in {FindCycles(deps_map, hashorder)} :
           IF cycles = {}
           THEN /\ pc' = "tprovides"
                /\ deps_map' = deps_map
           ELSE \E edges \in {EdgesToBreak(deps_map, cycles)} :
                  IF BreakRaises(deps_map, edges)
                  THEN /\ pc' = "crash"
                       /\ deps_map' = deps_map
                  ELSE /\ pc' = "sanitize"
                       /\ deps_map' = BreakEdges(deps_map, edges)
    /\ UNCHANGED <<inputs, slices, loadavg, graph0, sched>>

\* Lines 775-778; the graph returned is remembered in graph0.
RecursiveProvides ==
    /\ pc = "tprovides"
    /\ deps_map' = AllRecursiveProvides(deps_map, hashorder)
    /\ graph0' = deps_map'
    /\ pc' = "init"
    /\ UNCHANGED <<inputs, slices, loadavg, sched>>

BuildNext == ReverseTree \/ RemoveUnusedPackages \/ SanitizeTree \/ RecursiveProvides

-----------------------------------------------------------------------------
(* EmergeQueue *)

Sentinel == "None"

SchedState ==
    [dm |-> deps_map, ready |-> ready, jobs |-> jobs, eq |-> emerge_queue,
     rq |-> retry_queue, pq |-> print_queue, log |-> post_log, h |-> hist,
     err |-> FALSE, ret |-> FALSE]

\* Write a handler's result back; a KeyError ends the program.
Commit(st0, next_pc) ==
    \E st \in {st0} :
        /\ deps_map' = st.dm
        /\ ready' = st.ready
        /\ jobs' = st.jobs
        /\ emerge_queue' = st.eq
        /\ retry_queue' = st.rq
        /\ print_queue' = st.pq
        /\ post_log' = st.log
        /\ hist' = st.h
        /\ pc' = IF st.err THEN "crash" ELSE next_pc

\* Mutant: every package starts in the heap.
ReadyTargetsAll(dm) == DOMAIN dm

\* Mutant: a package that needs only nodeps packages starts in the heap too.
ReadyTargetsNodepsNeeds(dm) ==
    {t \in DOMAIN dm :
        \/ dm[t].nodeps
        \/ \A q \in dm[t].needs : q \in DOMAIN dm /\ dm[q].nodeps}

\* Line 1168: the packages that start in the heap.
ReadyTargets(dm) == {t \in DOMAIN dm : dm[t].nodeps \/ dm[t].needs = {}}

\* Lines 1167-1171: the initial heap.
InitialReady(dm) ==
    Let(InOrder(ReadyTargets(dm), PkgSeq), LAMBDA targets :
      Heapify([i \in 1..Len(targets) |->
                 ReadyEntry(dm[targets[i]], targets[i])]))

\* Lines 1127-1128.
TotalJobs(dm) == Cardinality({x \in DOMAIN dm : dm[x].action = "merge"})

\* Lines 1146-1147.
Procs(total_jobs, jobs_opt) == Min2(total_jobs, jobs_opt)

\* A print statement of the scheduler process itself (lines 1132, 1349-1355):
\* the history notes the line and what the printer was doing.
DirectPrint(h, line) ==
    [h EXCEPT !.direct = @ \cup {<<line, printer, printing>>}]

\* Mutant: --pretend is not looked at.
SkipMergeNever(pretend) == FALSE

\* Line 1131: with --pretend the constructor prints a line and exits.
SkipMerge(pretend) == pretend

\* EmergeQueue.__init__, lines 1120-1176.  With --pretend it ends the
\* program with sys.exit(0) (line 1133) before anything is started;
\* multiprocessing.Pool(procs) raises ValueError when procs < 1.
EmergeQueueInit ==
    /\ pc = "init"
    /\ LET p == Procs(TotalJobs(deps_map), opt_jobs)
       IN  IF SkipMerge(opt_pretend)
           THEN /\ pc' = "skipped"
                /\ hist' = DirectPrint(hist, "Skipping merge")
                /\ UNCHANGED <<deps_map, ready, jobs, retry_queue, failed,
                               retried, procs, emerge_queue, job_queue, running,
                               tries, print_queue, workers, post_log>>
           ELSE IF p < 1
           THEN /\ pc' = "crash"
                /\ UNCHANGED <<deps_map, sched>>
           ELSE /\ procs' = p
                /\ pool' = p
                /\ printer' = "run"
                /\ handlers' = [q \in Processes |->
                                  IF q \in {"scheduler", "printer"}
                                        \/ \E i \in 1..p : q = WorkerNames[i]
                                  THEN Handlers("exit")
                                  ELSE Handlers("none")]
                /\ Commit(Status(ScheduleLoop([SchedState EXCEPT
                                           !.ready = InitialReady(deps_map)],
                                       load_avg, loadavg, p, failed, graph0,
                                       hashorder)),
                          "top")
                /\ UNCHANGED <<failed, retried, job_queue, running, tries,
                               printing, closed, exit_pc, sigs>>
    /\ UNCHANGED <<inputs, slices, loadavg, graph0>>

\* Mutant: jobs is not looked at.
IdleNoJobs ==
    /\ emerge_queue = <<>>
    /\ job_queue = <<>>
    /\ ready = <<>>
    /\ DOMAIN deps_map # {}

\* Lines 1336-1340: nothing is queued, in flight or ready, and the graph is
\* not empty.
Idle ==
    /\ emerge_queue = <<>>
    /\ job_queue = <<>>
    /\ DOMAIN jobs = {}
    /\ ready = <<>>
    /\ DOMAIN deps_map # {}

\* Lines 1313-1314: the sentinel is put on the task channel and the pool is
\* closed; _Exit then waits in join (line 1315).
ExitOp(st) == [st EXCEPT !.eq = Append(@, Sentinel)]

\* The print channel's sentinel.
NoJob == <<Sentinel, "">>

RECURSIVE PrintLines(_, _)
PrintLines(st0, lines0) ==
    Let2(st0, lines0, LAMBDA st, lines :
      IF lines = <<>> THEN st
      ELSE PrintLines(PrintLine(st, Head(lines)), Tail(lines)))

\* Lines 1421-1430: the warning about the packages of retr.
Warning(st, retr, ord) ==
    IF retr = {} THEN st
    ELSE PrintLines(st, <<"", "WARNING", "but succeeded", "dependencies.">>
                          \o InOrder(retr, ord)
                          \o <<"@@@STEP_WARNINGS@@@", "">>)

\* The scheduler does not run ahead of the printer by more than MaxPending
\* messages.
PrinterKeepsUp == Len(print_queue) <= MaxPending

\* Run, lines 1334-1356 and 1421-1434: the top of the loop.  The two exits
\* go into _Exit, up to its wait for the pool.
RunTop ==
    /\ pc = "top"
    /\ exit_pc = "none"
    /\ sig_pc = "none"
    /\ PrinterKeepsUp
    /\ IF DOMAIN deps_map = {}
       THEN /\ Commit(ExitOp(PrintLine(Warning(SchedState, retried, hashorder),
                                       "Merge complete")), "done")
            /\ exit_pc' = "join"
       ELSE IF Idle
            THEN IF retry_queue # <<>>
                 THEN /\ Commit(Retry(SchedState, graph0, hashorder), "get")
                      /\ exit_pc' = exit_pc
                 ELSE /\ Commit(ExitOp(SchedState), "fatal")
                      /\ exit_pc' = "join"
            ELSE /\ Commit(SchedState, "get")
                 /\ exit_pc' = exit_pc
    /\ tries' = 0
    /\ UNCHANGED <<inputs, slices, loadavg, graph0, failed, retried, procs, job_queue,
                   running, printer, printing, pool, closed, handlers, sigs>>

\* Mutant: _Exit does not wait for the pool.
ExitPoolNoJoin ==
    /\ exit_pc = "join"
    /\ sig_pc = "none"
    /\ pc # "killed"
    /\ closed' = [closed EXCEPT !.emerge_queue = @ + 1]
    /\ print_queue' = Append(print_queue, NoJob)
    /\ exit_pc' = "print_join"
    /\ handlers' = [q \in Processes |->
                      IF q \in Range(WorkerNames) THEN Handlers("none")
                      ELSE handlers[q]]
    /\ UNCHANGED <<inputs, slices, loadavg, graph0, pc, deps_map, ready, jobs,
                   retry_queue, failed, retried, procs, emerge_queue, job_queue,
                   running, tries, printer, printing, pool, sigs, post_log, hist>>

\* _Exit, lines 1315-1320: every worker has left, the task channel is
\* closed and the sentinel is put on the print channel; _Exit then waits
\* for the printer (line 1321).
ExitPoolJoined ==
    /\ exit_pc = "join"
    /\ sig_pc = "none"
    /\ pc # "killed"
    /\ pool = 0
    /\ closed' = [closed EXCEPT !.emerge_queue = @ + 1]
    /\ print_queue' = Append(print_queue, NoJob)
    /\ exit_pc' = "print_join"
    /\ handlers' = [q \in Processes |->
                      IF q \in Range(WorkerNames) THEN Handlers("none")
                      ELSE handlers[q]]
    /\ UNCHANGED <<inputs, slices, loadavg, graph0, pc, deps_map, ready, jobs,
                   retry_queue, failed, retried, procs, emerge_queue, job_queue,
                   running, tries, printer, printing, pool, sigs, post_log, hist>>

\* _Exit, lines 1321-1325: the printer has exited, the print channel and
\* the result channel are closed.  On the deadlock exit Run then prints the
\* graph and the reason itself (lines 1349-1355).
ExitPrinterJoined ==
    /\ exit_pc = "print_join"
    /\ sig_pc = "none"
    /\ pc # "killed"
    /\ printer = "exited"
    /\ closed' = [closed EXCEPT !.print_queue = @ + 1, !.job_queue = @ + 1]
    /\ exit_pc' = "returned"
    /\ hist' = IF pc = "fatal"
               THEN DirectPrint(hist, IF failed # {} THEN "Packages failed"
                                      ELSE "Deadlock")
               ELSE hist
    /\ UNCHANGED <<inputs, slices, loadavg, graph0, pc, deps_map, ready, jobs,
                   retry_queue, failed, retried, procs, emerge_queue, job_queue,
                   running, tries, print_queue, printer, printing, pool,
                   handlers, sigs, post_log>>

\* Run, lines 1358-1368: job_queue.get timed out.
RunTimeout ==
    /\ pc = "get"
    /\ sig_pc = "none"
    /\ job_queue = <<>>
    /\ PrinterKeepsUp
    /\ \E st \in {ScheduleLoop(SchedState, load_avg, loadavg, procs, failed,
                               graph0, hashorder)} :
           IF tries + 1 < GetAttempts
           THEN /\ Commit(st, "get")
                /\ tries' = tries + 1
           ELSE /\ Commit(Status(st), "top")
                /\ tries' = 0
    /\ UNCHANGED <<inputs, slices, loadavg, graph0, failed, retried, procs, job_queue,
                   running, workers>>

\* Run, lines 1372-1375: a start event.
RunStarted ==
    /\ pc = "get"
    /\ job_queue # <<>>
    /\ ~Head(job_queue).done
    /\ sig_pc = "none"
    /\ PrinterKeepsUp
    /\ jobs' = SetKey(jobs, Head(job_queue).target, "job")
    /\ job_queue' = Tail(job_queue)
    /\ print_queue' = Append(print_queue, LinePrinter("Started"))
    /\ pc' = "top"
    /\ tries' = 0
    /\ UNCHANGED <<inputs, slices, loadavg, graph0, deps_map, ready, retry_queue, failed,
                   retried, procs, emerge_queue, running, workers, post_log,
                   hist>>

\* Mutant: a package that fails again is queued for another retry.
CompletedRequeue(st, target, retcode, fail, g0, ord) ==
    LET previously_failed == target \in fail
    IN  IF retcode # 0
        THEN IF previously_failed
             THEN [st EXCEPT !.h.failed_twice = @ \cup {target},
                             !.pq = Append(@, LinePrinter("Failed")),
                             !.rq = Append(@, target)]
                    @@ [fail |-> fail, retr |-> {}]
             ELSE [st EXCEPT !.rq = Append(@, target),
                             !.pq = Append(@, LinePrinter("Failed"))]
                    @@ [fail |-> fail \cup {target}, retr |-> {target}]
        ELSE
          LET fail1 == IF previously_failed THEN fail \ {target} ELSE fail
          IN  Let(Finish([st EXCEPT !.h.installed = @ \cup {target},
                         !.pq = Append(@, LinePrinter("Completed"))],
                         target, ord),
                  LAMBDA st1 :
                    (IF previously_failed /\ st1.rq # <<>>
                     THEN Retry(st1, g0, ord) ELSE st1)
                      @@ [fail |-> fail1, retr |-> {}])

\* Mutant: a package that fails again is finished as if it had succeeded.
CompletedIgnoreFailure(st, target, retcode, fail, g0, ord) ==
    LET previously_failed == target \in fail
    IN  IF retcode # 0 /\ ~previously_failed
        THEN [st EXCEPT !.rq = Append(@, target),
                        !.pq = Append(@, LinePrinter("Failed"))]
               @@ [fail |-> fail \cup {target}, retr |-> {target}]
        ELSE
          LET fail1 == IF previously_failed THEN fail \ {target} ELSE fail
              st0 == IF retcode # 0
                     THEN [st EXCEPT !.h.failed_twice = @ \cup {target},
                             !.pq = Append(@, LinePrinter("Failed"))]
                     ELSE [st EXCEPT !.h.installed = @ \cup {target},
                         !.pq = Append(@, LinePrinter("Completed"))]
          IN  Let(Finish(st0, target, ord),
                  LAMBDA st1 :
                    (IF previously_failed /\ st1.rq # <<>>
                     THEN Retry(st1, g0, ord) ELSE st1)
                      @@ [fail |-> fail1, retr |-> {}])

\* Mutant: a package whose retry succeeds stays in failed.
CompletedKeepFailed(st, target, retcode, fail, g0, ord) ==
    LET previously_failed == target \in fail
    IN  IF retcode # 0
        THEN IF previously_failed
             THEN [st EXCEPT !.h.failed_twice = @ \cup {target},
                             !.pq = Append(@, LinePrinter("Failed"))]
                    @@ [fail |-> fail, retr |-> {}]
             ELSE [st EXCEPT !.rq = Append(@, target),
                             !.pq = Append(@, LinePrinter("Failed"))]
                    @@ [fail |-> fail \cup {target}, retr |-> {target}]
        ELSE
          Let(Finish([st EXCEPT !.h.installed = @ \cup {target},
                         !.pq = Append(@, LinePrinter("Completed"))], target, ord),
              LAMBDA st1 :
                (IF previously_failed /\ st1.rq # <<>>
                 THEN Retry(st1, g0, ord) ELSE st1)
                  @@ [fail |-> fail, retr |-> {}])

\* Lines 1389-1414: what Run does with a done event, after line 1382.
\* fail is self._failed; the result carries the new one in field fail.
Completed(st, target, retcode, fail, g0, ord) ==
    LET previously_failed == target \in fail
    IN  IF retcode # 0
        THEN IF previously_failed
             THEN [st EXCEPT !.h.failed_twice = @ \cup {target},
                             !.pq = Append(@, LinePrinter("Failed"))]
                    @@ [fail |-> fail, retr |-> {}]
             ELSE [st EXCEPT !.rq = Append(@, target),
                             !.pq = Append(@, LinePrinter("Failed"))]
                    @@ [fail |-> fail \cup {target}, retr |-> {target}]
        ELSE
          LET fail1 == IF previously_failed THEN fail \ {target} ELSE fail
          IN  Let(Finish([st EXCEPT !.h.installed = @ \cup {target},
                         !.pq = Append(@, LinePrinter("Completed"))],
                         target, ord),
                  LAMBDA st1 :
                    (IF previously_failed /\ st1.rq # <<>>
                     THEN Retry(st1, g0, ord) ELSE st1)
                      @@ [fail |-> fail1, retr |-> {}])

\* The option --show-output is not given.
show_output == FALSE

\* Lines 1378-1381: the log of a job that ended is printed and deleted by
\* the printer, or deleted at once.
PrintJob(st, job) ==
    IF show_output \/ job.retcode # 0
    THEN [st EXCEPT !.pq = Append(@, JobPrinter(job.target, TRUE))]
    ELSE st

\* Run, lines 1377-1419: a done event.
RunDone ==
    /\ pc = "get"
    /\ job_queue # <<>>
    /\ Head(job_queue).done
    /\ sig_pc = "none"
    /\ PrinterKeepsUp
    /\ LET job == Head(job_queue)
           target == job.target
       IN  IF target \notin DOMAIN jobs
           THEN /\ pc' = "crash"
                /\ print_queue' = PrintJob(SchedState, job).pq
                /\ UNCHANGED <<deps_map, ready, jobs, retry_queue, failed,
                               retried, emerge_queue, post_log, hist>>
           ELSE
             \E st1 \in {Completed([PrintJob(SchedState, job) EXCEPT
                                        !.jobs = RemoveKey(@, target)],
                                     target, job.retcode, failed, graph0,
                                     hashorder)} :
                 /\ Commit(Status(ScheduleLoop(st1, load_avg, loadavg, procs,
                                               st1.fail, graph0, hashorder)),
                           "top")
                 /\ failed' = st1.fail
                 /\ retried' = retried \cup st1.retr
    /\ job_queue' = Tail(job_queue)
    /\ tries' = 0
    /\ UNCHANGED <<inputs, slices, loadavg, graph0, procs, running, workers>>

-----------------------------------------------------------------------------
(* EmergeWorker and the environment *)

Busy == {p \in Pkgs : running[p] > 0}

RECURSIVE SumOver(_, _)
SumOver(f, S0) ==
    Let(S0, LAMBDA S :
      IF S = {} THEN 0
      ELSE LET x == CHOOSE y \in S : TRUE IN f[x] + SumOver(f, S \ {x}))

\* Lines 971-988: a free worker of the pool takes a target and reports the
\* start of the job; with KILLED set it returns instead.
WorkerTake ==
    /\ pc \in {"top", "get"}
    /\ emerge_queue # <<>>
    /\ Head(emerge_queue) # Sentinel
    /\ SumOver(running, Pkgs) < pool
    /\ emerge_queue' = Tail(emerge_queue)
    /\ IF killed
       THEN /\ pool' = pool - 1
            /\ UNCHANGED <<running, job_queue>>
       ELSE /\ running' = [running EXCEPT ![Head(emerge_queue)] = @ + 1]
            /\ job_queue' = Append(job_queue,
                                   [target |-> Head(emerge_queue),
                                    done |-> FALSE, retcode |-> 0])
            /\ pool' = pool
    /\ UNCHANGED <<inputs, slices, loadavg, graph0, pc, deps_map, ready, jobs,
                   retry_queue, failed, retried, procs, tries, print_queue,
                   printer, printing, closed, exit_pc, handlers, sigs, post_log, hist>>

\* Lines 989-1012: the install ends with some exit code (0 with --pretend,
\* where nothing is installed) and the worker reports it; with KILLED set
\* it returns instead.
WorkerDone ==
    /\ pc \in {"top", "get"}
    /\ \E target \in Busy : \E retcode \in IF opt_pretend THEN {0} ELSE {0, 1} :
        /\ running' = [running EXCEPT ![target] = @ - 1]
        /\ IF killed
           THEN /\ pool' = pool - 1
                /\ job_queue' = job_queue
           ELSE /\ job_queue' = Append(job_queue,
                                       [target |-> target, done |-> TRUE,
                                        retcode |-> retcode])
                /\ pool' = pool
    /\ UNCHANGED <<inputs, slices, loadavg, graph0, pc, deps_map, ready, jobs,
                   retry_queue, failed, retried, procs, emerge_queue, tries,
                   print_queue, printer, printing, closed, exit_pc, handlers, sigs,
                   post_log, hist>>

\* Mutant: the worker that takes the sentinel keeps it.
WorkerExitKeep ==
    /\ pc # "killed"
    /\ emerge_queue # <<>>
    /\ Head(emerge_queue) = Sentinel
    /\ SumOver(running, Pkgs) < pool
    /\ emerge_queue' = Tail(emerge_queue)
    /\ pool' = pool - 1
    /\ UNCHANGED <<inputs, slices, loadavg, graph0, pc, deps_map, ready, jobs,
                   retry_queue, failed, retried, procs, job_queue, running,
                   tries, print_queue, printer, printing, closed, exit_pc, handlers, sigs,
                   post_log, hist>>

\* Lines 971-977: a free worker takes the sentinel, puts it back for the
\* other workers and returns.
WorkerExit ==
    /\ pc # "killed"
    /\ emerge_queue # <<>>
    /\ Head(emerge_queue) = Sentinel
    /\ SumOver(running, Pkgs) < pool
    /\ emerge_queue' = Append(Tail(emerge_queue), Sentinel)
    /\ pool' = pool - 1
    /\ UNCHANGED <<inputs, slices, loadavg, graph0, pc, deps_map, ready, jobs,
                   retry_queue, failed, retried, procs, job_queue, running,
                   tries, print_queue, printer, printing, closed, exit_pc, handlers, sigs,
                   post_log, hist>>

\* LinePrinter.Print, lines 1021-1022: the line.
LinePrinterPrint(msg) == <<msg>>

\* JobPrinter.Print, lines 1036-1080: the header, the footer (the lines of
\* the log between them are left out), and with unlink the log is deleted
\* after the footer.  A log is printed once in the runs modelled, so the
\* header is always the one of line 1053.
JobPrinterPrint(msg) == <<<<"start", msg[2]>>, <<"end", msg[1], msg[2]>>>>

\* job.Print(seek_locations), line 1106: what the message writes.
PrintOut(msg) ==
    IF msg[1] = "line" THEN LinePrinterPrint(msg) ELSE JobPrinterPrint(msg)

\* Mutant: a message is taken while the last one is still being printed.
PrintWorkerBusy ==
    /\ pc # "killed"
    /\ printer = "run"
    /\ print_queue # <<>>
    /\ print_queue' = Tail(print_queue)
    /\ IF Head(print_queue) = NoJob
       THEN /\ printer' = "exited"
            /\ printing' = <<>>
            /\ handlers' = [handlers EXCEPT !["printer"] = Handlers("none")]
       ELSE /\ printing' = Tail(PrintOut(Head(print_queue)))
            /\ UNCHANGED <<printer, handlers>>
    /\ UNCHANGED <<inputs, slices, loadavg, graph0, pc, deps_map, ready, jobs,
                   retry_queue, failed, retried, procs, emerge_queue, job_queue,
                   running, tries, pool, closed, exit_pc, sigs, post_log, hist>>

\* PrintWorker, lines 1103-1110: the printer, having printed its last
\* message, takes the next one and prints its first line, or takes the
\* sentinel and leaves its loop.
PrintWorker ==
    /\ pc # "killed"
    /\ printer = "run"
    /\ printing = <<>>
    /\ print_queue # <<>>
    /\ print_queue' = Tail(print_queue)
    /\ IF Head(print_queue) = NoJob
       THEN /\ printer' = "exited"
            /\ printing' = <<>>
            /\ handlers' = [handlers EXCEPT !["printer"] = Handlers("none")]
       ELSE /\ printing' = Tail(PrintOut(Head(print_queue)))
            /\ UNCHANGED <<printer, handlers>>
    /\ UNCHANGED <<inputs, slices, loadavg, graph0, pc, deps_map, ready, jobs,
                   retry_queue, failed, retried, procs, emerge_queue, job_queue,
                   running, tries, pool, closed, exit_pc, sigs, post_log, hist>>

\* Lines 1106-1107: the printer prints the next line of its message; after
\* the last one it flushes stdout.
PrintNextLine ==
    /\ pc # "killed"
    /\ printer = "run"
    /\ printing # <<>>
    /\ printing' = Tail(printing)
    /\ UNCHANGED <<inputs, slices, loadavg, graph0, pc, deps_map, ready, jobs,
                   retry_queue, failed, retried, procs, emerge_queue, job_queue,
                   running, tries, print_queue, printer, pool, closed, exit_pc,
                   handlers, sigs, post_log, hist>>

-----------------------------------------------------------------------------
(* Signals *)

\* The signals delivered in a run.
MaxSignals == 2

\* Line 874, os.killpg(0, SIGKILL): every process of the group ends, the
\* caller included.
KillPg ==
    /\ pc' = "killed"
    /\ printer' = "killed"
    /\ pool' = 0
    /\ running' = [p \in Pkgs |-> 0]
    /\ handlers' = [q \in Processes |-> Handlers("none")]

\* The signal n is delivered to process q, whose handler for it is h.
Delivered(q, n, h) ==
    /\ pc # "killed"
    /\ Len(sig_log) < MaxSignals
    /\ handlers[q][n] = h
    /\ sig_log' = Append(sig_log, <<q, n>>)

\* KillHandler, lines 872-874, in any process.
KillHandler ==
    /\ \E q \in Processes, n \in Signals : Delivered(q, n, "kill")
    /\ KillPg
    /\ UNCHANGED <<inputs, slices, loadavg, graph0, deps_map, ready, jobs, retry_queue,
                   failed, retried, procs, emerge_queue, job_queue, tries,
                   print_queue, printing, closed, exit_pc, killed, sig_pc,
                   post_log, hist>>

\* Mutant: only the handler of the signal received is replaced.
SwapHandlersOne(q, n) == [handlers EXCEPT ![q][n] = "kill"]

\* Lines 882-883, 1091-1092 and 1185-1186: both handlers of q become
\* KillHandler.
SwapHandlers(q, n) == [handlers EXCEPT ![q] = Handlers("kill")]

\* ExitHandler of SetupWorkerSignals, lines 877-883, and of PrintWorker,
\* lines 1086-1092.  A signal that reaches the printer inside a system call
\* makes the call fail with EINTR, and the printer goes on with the next
\* message (lines 1111-1114); whether a write was under way is not decided
\* by the program, so the rest of the message is printed or dropped.
ChildExitHandler ==
    /\ \E q \in Processes \ {"scheduler"}, n \in Signals :
          /\ Delivered(q, n, "exit")
          /\ handlers' = SwapHandlers(q, n)
          /\ printing' \in IF q = "printer" THEN {printing, <<>>}
                           ELSE {printing}
    /\ killed' = TRUE
    /\ UNCHANGED <<inputs, slices, loadavg, graph0, pc, deps_map, ready, jobs,
                   retry_queue, failed, retried, procs, emerge_queue, job_queue,
                   running, tries, print_queue, printer, pool, closed, exit_pc,
                   sig_pc, post_log, hist>>

\* Lines 1189-1191: a flush for every job whose start Run has recorded.
RECURSIVE Flushes(_, _)
Flushes(j, todo0) ==
    Let(todo0, LAMBDA todo :
      IF todo = <<>> THEN <<>>
      ELSE (IF j[Head(todo)] = "job"
            THEN <<JobPrinter(Head(todo), TRUE)>> ELSE <<>>)
             \o Flushes(j, Tail(todo)))

\* ExitHandler of the scheduler, lines 1180-1197, up to its wait for the
\* printer.  After _Exit has closed the print channel and set it to None
\* (lines 1322-1323) the first put raises and the scheduler ends with a
\* traceback.
SchedExitHandler ==
    /\ pc \in {"top", "get", "done", "fatal"}
    /\ \E n \in Signals :
          /\ Delivered("scheduler", n, "exit")
          /\ handlers' = SwapHandlers("scheduler", n)
    /\ killed' = TRUE
    /\ IF closed.print_queue > 0
       THEN /\ pc' = "crash"
            /\ UNCHANGED <<print_queue, sig_pc>>
       ELSE /\ print_queue' = print_queue
                                 \o Flushes(jobs, InOrder(DOMAIN jobs, hashorder))
                                 \o <<LinePrinter("Exiting on signal"), NoJob>>
            /\ sig_pc' = "join"
            /\ pc' = pc
    /\ UNCHANGED <<inputs, slices, loadavg, graph0, deps_map, ready, jobs, retry_queue,
                   failed, retried, procs, emerge_queue, job_queue, running,
                   tries, printer, printing, pool, closed, exit_pc, post_log, hist>>

\* ExitHandler of the scheduler, lines 1197-1199: the printer has left, the
\* process group is killed.
SchedExitKill ==
    /\ pc # "killed"
    /\ sig_pc = "join"
    /\ printer = "exited"
    /\ KillPg
    /\ UNCHANGED <<inputs, slices, loadavg, graph0, deps_map, ready, jobs, retry_queue,
                   failed, retried, procs, emerge_queue, job_queue, tries,
                   print_queue, printing, closed, exit_pc, killed, sig_pc,
                   sig_log, post_log, hist>>

SignalNext == KillHandler \/ ChildExitHandler \/ SchedExitHandler \/ SchedExitKill

\* The load of the machine changes.  The scheduler reads it only when
\* --load-average is given (line 1226).
LoadChange ==
    /\ pc \in {"top", "get"}
    /\ load_avg # 0
    /\ \E l \in Loads \ {loadavg} : loadavg' = l
    /\ UNCHANGED <<inputs, slices, graph0, pc, deps_map, sched>>

SchedNext ==
    \/ EmergeQueueInit
    \/ RunTop
    \/ RunTimeout
    \/ RunStarted
    \/ RunDone
    \/ ExitPoolJoined
    \/ ExitPrinterJoined
    \/ WorkerTake
    \/ WorkerDone
    \/ WorkerExit
    \/ PrintWorker
    \/ PrintNextLine
    \/ LoadChange

Next == BuildNext \/ SchedNext

Spec == Init /\ [][Next]_vars

-----------------------------------------------------------------------------
(* The graph builder alone, on every tree over three packages *)

BuildPkgs == {"A", "B", "C"}

\* The sequences without repetition of elements of S.
RECURSIVE Arrangements(_)
Arrangements(S) ==
    {<<>>} \cup UNION {{<<x>> \o t : t \in Arrangements(S \ {x})} : x \in S}

\* Every set of edges between the three packages, self-loops included; the
\* edges are runtime dependencies, or blockers where parent "A" says so;
\* every install list; "A" a binary package without phases or not.
BuildInputs ==
    {In(BuildPkgs, Merge(BuildPkgs),
        {<<e[1], e[2], IF blk /\ e[1] = "A" THEN BL ELSE RT>> : e \in E},
        o, b, {}) :
       E \in SUBSET (BuildPkgs \X BuildPkgs),
       o \in Arrangements(BuildPkgs),
       blk \in BOOLEAN,
       b \in {{}, {"A"}}}

BuildInit ==
    /\ \E in \in BuildInputs :
         /\ deps_tree = TreeOf(in)
         /\ deps_info = InfoOf(in)
         /\ binpkg = DbOf([in EXCEPT !.bin = @ \cap Range(in.order)])
    /\ pc = "reverse"
    /\ deps_map = EmptyMap
    /\ graph0 = EmptyMap
    /\ hashorder \in HashOrders
    /\ NoSlices
    /\ opt_jobs = 1
    /\ opt_pretend = FALSE
    /\ load_avg = 0
    /\ loadavg = MaxLoadAvg
    /\ ready = <<>>
    /\ jobs = EmptyMap
    /\ retry_queue = <<>>
    /\ failed = {}
    /\ retried = {}
    /\ procs = 0
    /\ emerge_queue = <<>>
    /\ job_queue = <<>>
    /\ running = [p \in Pkgs |-> 0]
    /\ tries = 0
    /\ print_queue = <<>>
    /\ printer = "none"
    /\ printing = <<>>
    /\ pool = 0
    /\ closed = NoneClosed
    /\ exit_pc = "none"
    /\ killed = FALSE
    /\ handlers = [q \in Processes |-> Handlers("none")]
    /\ sig_pc = "none"
    /\ sig_log = <<>>
    /\ post_log = <<>>
    /\ hist = NoHist

BuildSpec == BuildInit /\ [][BuildNext]_vars

-----------------------------------------------------------------------------
(* Claims *)

Built == DOMAIN deps_tree # {}

InScheduler == pc \in {"top", "get", "done", "fatal"}

Occurrences(s, x) == Cardinality({i \in 1..Len(s) : s[i] = x})

FirstIndex(s, x) == CHOOSE i \in 1..Len(s) : s[i] = x /\ \A j \in 1..(i - 1) : s[j] # x

\* C1 - No premature dispatch: whenever the scheduler puts a package p on
\* the task channel, from the dispatch loop or from the retry path, at that
\* moment needs[p] is empty or nodeps[p] is true.
C1_NoPrematureDispatch == hist.premature = {}

\* A run in which the dispatch loop and the retry path both posted, one of
\* the posts being a nodeps package with needs left.
C1_Witness ==
    /\ hist.retry_posts # {}
    /\ \E p \in Range(post_log) : p \in hist.demoted

\* C2 - Dependency order: for every edge "p needs q" of the graph the
\* builder returned, with nodeps[p] false, p is put on the task channel
\* only after q was removed from the graph, q having been installed with
\* exit code 0 or being a nomerge node; so q's first post precedes p's.
C2_DependencyOrder ==
    /\ hist.early = {}
    /\ \A p \in DOMAIN graph0 : \A q \in graph0[p].needs :
         (~graph0[p].nodeps /\ p \in Range(post_log)) =>
            /\ q \notin DOMAIN deps_map
            /\ q \in hist.installed \/ graph0[q].action = "nomerge"
            /\ q \in Range(post_log) =>
                 FirstIndex(post_log, q) < FirstIndex(post_log, p)

\* The chain was installed C, B, A.
C2_Witness ==
    /\ pc = "done"
    /\ post_log = <<"C", "B", "A">>

\* No path along needs edges leads from a node back to itself.
RECURSIVE ReachFrom(_, _, _)
ReachFrom(dm, S, n) ==
    IF n = 0 THEN S
    ELSE ReachFrom(dm, S \cup UNION {dm[x].needs \cap DOMAIN dm : x \in S}, n - 1)

Acyclic(dm) ==
    \A p \in DOMAIN dm :
        p \notin ReachFrom(dm, dm[p].needs \cap DOMAIN dm, Cardinality(DOMAIN dm))

\* C3 - Acyclicity: the graph the builder returns (after Reverse, Prune
\* Non-installs and Cycle Break) has no path along needs edges from a node
\* back to itself, self-loops included.
C3_Acyclic == pc \in {"tprovides", "init"} => Acyclic(deps_map)

\* The tree had the cycle A, B, C, A and a self-loop at A; the returned
\* graph has the three packages and still has an edge.
C3_Witness ==
    /\ pc = "init"
    /\ "B" \in DOMAIN deps_tree["A"].deps
    /\ "C" \in DOMAIN deps_tree["B"].deps
    /\ "A" \in DOMAIN deps_tree["C"].deps
    /\ "A" \in DOMAIN deps_tree["A"].deps
    /\ Cardinality(DOMAIN deps_map) = 3
    /\ \E p \in DOMAIN deps_map : deps_map[p].needs # {}

\* Every package named in a needs or provides entry is a node.
Closed(dm) ==
    \A p \in DOMAIN dm : dm[p].needs \cup dm[p].provides \subseteq DOMAIN dm

C5_ParallelismCap ==
    /\ Cardinality(DOMAIN jobs) <= procs
    /\ InScheduler =>
         LET n == Cardinality({x \in DOMAIN graph0 : graph0[x].action = "merge"})
         IN  procs = IF n < opt_jobs THEN n ELSE opt_jobs

\* jobs is full and one of its entries is a retry.
C5_Witness ==
    /\ procs >= 2
    /\ Cardinality(DOMAIN jobs) = procs
    /\ hist.retry_posts \cap DOMAIN jobs # {}

\* The load is above the cap given with --load-average.
OverCap == load_avg # 0 /\ loadavg > load_avg

\* C6 as claimed - Load-average cap: while the load is above the cap, jobs
\* never has more than one entry, whatever the load was when the jobs in
\* flight were posted and whoever posted them.
C6_LoadCapAlways == OverCap => Cardinality(DOMAIN jobs) <= 1

\* C6 (as amended): a call of the dispatch loop that reads a load above the
\* cap posts a package only when jobs is empty, so that each of its posts
\* leaves one entry in jobs; jobs posted before stay in flight, and the
\* retry path does not read the load.
C6_LoadCapAtDispatch == \A n \in hist.over_posts : n <= 1

\* The dispatch loop has posted under a load above the cap, and now the load
\* is above the cap with two jobs in flight.
C6_Witness ==
    /\ hist.over_posts # {}
    /\ OverCap
    /\ Cardinality(DOMAIN jobs) >= 2

\* C7 - At most one retry is active: at most one package of failed is in
\* jobs at any time.
C7_OneRetryActive == Cardinality(failed \cap DOMAIN jobs) <= 1

\* One retry is in flight while another package waits in retry_queue.
C7_Witness ==
    /\ failed \cap DOMAIN jobs # {}
    /\ retry_queue # <<>>

\* C8 as claimed - Second failure is fatal: once a package has failed for
\* the second time the scheduler puts no further package on the task
\* channel.
C8_NoPostAfterSecondFailure ==
    [][hist.failed_twice # {} => post_log' = post_log]_vars

\* C8 (as amended): a package that failed for the second time is never
\* posted again; it stays in the graph and in failed, out of jobs and out of
\* retry_queue, and the run does not end normally.  Other packages, ready
\* or queued for retry, are still posted.
C8_SecondFailureFinal ==
    \A p \in hist.failed_twice :
        /\ Occurrences(post_log, p) = 2
        /\ p \in failed
        /\ p \in DOMAIN deps_map
        /\ p \notin DOMAIN jobs
        /\ p \notin Range(retry_queue)
        /\ pc # "done"

\* After a second failure another package is in flight.
C8_Witness ==
    /\ hist.failed_twice # {}
    /\ DOMAIN jobs \ hist.failed_twice # {}

-----------------------------------------------------------------------------
(* Fairness: the scheduler's loop keeps running (job_queue.get returns or  *)
(* times out), a free worker takes the next task, and every install ends.  *)

RunNext ==
    \/ EmergeQueueInit
    \/ RunTop
    \/ RunTimeout
    \/ RunStarted
    \/ RunDone
    \/ ExitPoolJoined
    \/ ExitPrinterJoined

\* Run's loop keeps running, and a worker of the pool that can take a
\* target or end an install does so.
FairSpec ==
    /\ Init
    /\ [][Next]_vars
    /\ WF_vars(BuildNext)
    /\ WF_vars(RunNext)
    /\ WF_vars(WorkerTake)
    /\ WF_vars(WorkerDone)
    /\ WF_vars(WorkerExit)
    /\ WF_vars(PrintWorker)
    /\ WF_vars(PrintNextLine)

\* C9 - Exit status: the run ends normally only with an empty graph; a
\* package that failed twice stays in the graph and in failed and the run
\* never ends normally; and, every install ending, the run then ends on the
\* fatal exit with that package in failed.
C9_ExitStatus ==
    /\ [](pc = "done" => DOMAIN deps_map = {})
    /\ [](\A p \in hist.failed_twice :
            p \in DOMAIN deps_map /\ p \in failed /\ pc # "done")
    /\ (hist.failed_twice # {}) ~>
          (pc = "fatal" /\ hist.failed_twice # {} /\ hist.failed_twice \subseteq failed)

\* The fatal exit after a double failure.
C9_Witness ==
    /\ pc = "fatal"
    /\ hist.failed_twice # {}
    /\ hist.failed_twice \subseteq failed

\* C10 - Deadlock detection: the fatal exit is taken at the top of the loop
\* exactly when both channels, jobs, ready and retry_queue are empty and the
\* graph is not; and the graph whose only node needs an absent package ends
\* there without a post.
C10_DeadlockExit ==
    /\ [][(pc = "top" /\ pc' \notin {"top", "crash"}) =>
            ((pc' = "fatal") <=>
               (/\ emerge_queue = <<>>
                /\ job_queue = <<>>
                /\ DOMAIN jobs = {}
                /\ ready = <<>>
                /\ retry_queue = <<>>
                /\ DOMAIN deps_map # {}))]_vars
    /\ [][pc' = "fatal" => pc \in {"top", "fatal"}]_vars
    /\ [](pc = "fatal" =>
            /\ DOMAIN jobs = {}
            /\ ready = <<>>
            /\ retry_queue = <<>>
            /\ job_queue = <<>>
            /\ \A p \in Pkgs : running[p] = 0
            /\ DOMAIN deps_map # {})
    /\ [](~Built => post_log = <<>> /\ pc \in {"init", "top", "get", "fatal"})
    /\ (~Built) ~> (pc = "fatal")

\* The graph whose only node needs an absent package was reported.
C10_Witness ==
    /\ ~Built
    /\ pc = "fatal"
    /\ failed = {}
    /\ DOMAIN deps_map = {"A"}

-----------------------------------------------------------------------------
(* Failures and retries *)

\* Run takes the done event of target with exit code rc off job_queue and
\* handles it (lines 1377-1419).
DoneStep(target, rc) ==
    /\ pc = "get"
    /\ job_queue # <<>>
    /\ Head(job_queue) = [target |-> target, done |-> TRUE, retcode |-> rc]
    /\ pc' = "top"

\* The nodes of dm that need p.
Successors(dm, p) == {q \in DOMAIN dm : p \in dm[q].needs}

\* A first failure of p: p is appended to retry_queue and added to failed,
\* it stays in the graph and every successor still needs it.
FirstFailureKept ==
    [][\A p \in Pkgs :
         (DoneStep(p, 1) /\ p \notin failed) =>
            /\ retry_queue' = Append(retry_queue, p)
            /\ p \in failed'
            /\ p \in DOMAIN deps_map'
            /\ Successors(deps_map, p) \subseteq Successors(deps_map', p)]_vars

\* Normal termination: nothing is failed or queued for retry, and the
\* packages of the warning are those posted twice.
EpilogListsRetried ==
    [](pc = "done" =>
         /\ failed = {}
         /\ retry_queue = <<>>
         /\ retried = {p \in Pkgs : Occurrences(post_log, p) >= 2})

\* C11 as claimed - Transient failure recovery: a first failure queues the
\* package for retry, puts it in failed and unblocks no successor; a retry
\* that exits 0 takes it out of failed, removes it from the graph and takes
\* it out of the needs of every successor; the run can then end normally,
\* and the warning lists exactly the packages that failed a first attempt.
C11_RetryUnblocks ==
    /\ FirstFailureKept
    /\ EpilogListsRetried
    /\ [][\A p \in Pkgs :
            (DoneStep(p, 0) /\ p \in failed) =>
               /\ p \notin failed'
               /\ p \notin DOMAIN deps_map'
               /\ Successors(deps_map', p) = {}]_vars

\* C11 (as amended): the same, except that a package with nodeps whose
\* retry exits 0 while it still has needs is kept in the graph as a nomerge
\* node; its successors go on needing it until its own needs are finished.
C11_TransientFailure ==
    /\ FirstFailureKept
    /\ EpilogListsRetried
    /\ [][\A p \in Pkgs :
            (DoneStep(p, 0) /\ p \in failed) =>
               /\ p \notin failed'
               /\ IF deps_map[p].needs # {} /\ deps_map[p].nodeps
                  THEN /\ p \in DOMAIN deps_map'
                       /\ deps_map'[p].action = "nomerge"
                       /\ Successors(deps_map', p) = Successors(deps_map, p)
                  ELSE /\ p \notin DOMAIN deps_map'
                       /\ Successors(deps_map', p) = {}]_vars

\* The run ended normally after two retries, one of a package that was
\* kept as a nomerge node and one of a package with a successor.
C11_Witness ==
    /\ pc = "done"
    /\ retried \cap hist.demoted # {}
    /\ \E p \in retried \ hist.demoted : graph0[p].provides # {}

-----------------------------------------------------------------------------
(* Blockers *)

\* The pairs <<a, b>> of the input tree with a blocker among the deptypes
\* of the dependency of a on b (line 627).
BlockerPairs ==
    {e \in (DOMAIN deps_tree) \X Pkgs :
        /\ e[2] \in DOMAIN deps_tree[e[1]].deps
        /\ "blocker" \in deps_tree[e[1]].deps[e[2]].deptypes}

\* C12 - Blockers are never installed concurrently: two packages of the
\* input tree with a blocker dependency between them are never in jobs at
\* the same time.
C12_BlockersNotConcurrent ==
    \A e \in BlockerPairs : ~({e[1], e[2]} \subseteq DOMAIN jobs)

-----------------------------------------------------------------------------
(* nodeps packages *)

\* The pairs <<a, b>> of the graph the builder returned in which a, an
\* ordinary merge node, needs b, a binary package to merge with nodeps.
NodepsNeeded ==
    {e \in (DOMAIN graph0) \X (DOMAIN graph0) :
        /\ e[2] \in graph0[e[1]].needs
        /\ graph0[e[2]].binary /\ graph0[e[2]].nodeps
        /\ graph0[e[2]].action = "merge"
        /\ graph0[e[1]].action = "merge" /\ ~graph0[e[1]].nodeps}

\* C13 as claimed - Binary nodeps: in the graph of A and B alone, A needing
\* B and B binary with nodeps, with two workers, A is dispatched along with
\* B: once B is posted A is posted too.
C13_DispatchedConcurrently ==
    \A e \in NodepsNeeded :
        (DOMAIN graph0 = {e[1], e[2]} /\ InScheduler /\ procs >= 2
           /\ e[2] \in Range(post_log))
        => e[1] \in Range(post_log)

\* C13 (as amended): nodeps lets B start before B's own needs, not A before
\* B.  A is never in flight together with B: it is posted only after B was
\* installed with exit code 0 and removed from the graph, so A's dispatch
\* and completion both require B's Finish.
C13_BinaryNodepsOrder ==
    \A e \in NodepsNeeded :
        /\ ~({e[1], e[2]} \subseteq DOMAIN jobs)
        /\ e[1] \in Range(post_log) =>
              /\ e[2] \in hist.installed
              /\ e[2] \notin DOMAIN deps_map
        /\ e[1] \notin DOMAIN deps_map => e[2] \notin DOMAIN deps_map

\* With two workers B was posted alone and installed, then A.
C13_Witness ==
    /\ <<"A", "B">> \in NodepsNeeded
    /\ DOMAIN graph0 = {"A", "B"}
    /\ procs = 2
    /\ post_log = <<"B", "A">>
    /\ pc = "done"

\* The packages in the ready heap.
ReadyPkgs == {ready[i].pkg : i \in 1..Len(ready)}

\* The needs of p that are not finished yet.
OpenNeeds(p) == graph0[p].needs \cap DOMAIN deps_map

\* C14 - Early-installed nodeps node: a nodeps package p installed with
\* exit code 0 while it has needs left stays in the graph as a nomerge node,
\* out of ready and of jobs; every successor stays in the graph needing p,
\* and a successor without nodeps is neither ready nor posted; once the
\* last of p's needs is finished p is out of the graph; and p is never
\* posted again after its install.
C14_EarlyInstalled ==
    /\ [](\A p \in hist.installed \cap DOMAIN graph0 :
            graph0[p].nodeps =>
              IF OpenNeeds(p) # {}
              THEN /\ p \in DOMAIN deps_map
                   /\ deps_map[p].action = "nomerge"
                   /\ deps_map[p].needs = OpenNeeds(p)
                   /\ p \notin ReadyPkgs \cup DOMAIN jobs
                   /\ \A q \in graph0[p].provides :
                        /\ q \in DOMAIN deps_map
                        /\ p \in deps_map[q].needs
                        /\ ~graph0[q].nodeps =>
                             q \notin ReadyPkgs \cup Range(post_log)
              ELSE p \notin DOMAIN deps_map)
    /\ [][\A p \in hist.installed :
            Occurrences(post_log', p) = Occurrences(post_log, p)]_vars

\* A nodeps package was installed early and kept, its needs were finished
\* later, and its successor was installed after that.
C14_Witness ==
    /\ pc = "done"
    /\ \E p \in hist.demoted \cap hist.installed :
          /\ graph0[p].provides # {}
          /\ Occurrences(post_log, p) = 1

\* C15 as claimed - Progress of Finish: every call of Finish that returns
\* shrinks the graph by exactly one node or demotes exactly one node to
\* nomerge.
C15_FinishByOne ==
    \A e \in hist.finish_effects :
        \/ e.shrink = 1 /\ e.demoted = 0
        \/ e.shrink = 0 /\ e.demoted = 1

\* C15 (as amended): every call of Finish that returns either removes its
\* target, shrinking the graph by one node and by one more for every
\* nomerge nodeps node it finishes recursively, and demotes nothing; or it
\* leaves the graph as large as it was and sets the action of its target
\* alone to nomerge, which changes nothing when the target is a nomerge
\* node already.
C15_FinishProgress ==
    \A e \in hist.finish_effects :
        IF e.early
        THEN ~e.gone /\ e.shrink = 0
               /\ e.demoted = IF e.nomerge THEN 0 ELSE 1
        ELSE e.gone /\ e.shrink >= 1 /\ e.demoted = 0

\* One call changed nothing and a later one removed two nodes.
C15_Witness ==
    /\ \E e \in hist.finish_effects : e.shrink = 2
    /\ \E e \in hist.finish_effects : e.shrink = 0 /\ e.demoted = 0
    /\ pc = "done"

-----------------------------------------------------------------------------
(* Completion and shutdown *)

\* Run has returned after a normal completion: the graph is empty, every
\* worker and the printer have left, and _Exit has returned.
Terminated ==
    /\ pc = "done"
    /\ exit_pc = "returned"
    /\ DOMAIN deps_map = {}
    /\ pool = 0
    /\ printer = "exited"

\* C16 - Completion: from every graph the builder returns in which every
\* needed package is present, every install ending and no package failing
\* twice, the run empties the graph, tells the workers to exit, joins them
\* and the printer, and returns normally.
C16_Completion ==
    (pc = "init" /\ Built /\ Closed(deps_map)) ~>
        (Terminated \/ hist.failed_twice # {})

\* The same for the graphs with a package to merge.
C16_CompletionWithJobs ==
    (pc = "init" /\ Built /\ Closed(deps_map) /\ TotalJobs(deps_map) > 0) ~>
        (Terminated \/ hist.failed_twice # {})

\* The print channel's sentinel has been put.
PrinterTold == exit_pc \in {"print_join", "returned"}

-----------------------------------------------------------------------------
(* Signals: runs in which SIGINT and SIGTERM are delivered *)

\* A needs B, B a binary package without phases.
SigScenarios == {in \in Scenarios : in.order = <<"B", "A">>}

SigInit ==
    /\ \E in \in SigScenarios : InitOn(in)
    /\ opt_pretend = FALSE
    /\ hashorder = PkgSeq
    /\ loadavg = MaxLoadAvg

SigNext == Next \/ SignalNext

SigSpec == SigInit /\ [][SigNext]_vars

\* As FairSpec, and the scheduler's ExitHandler goes on once the printer
\* has left; no signal has to arrive.
FairSigSpec ==
    /\ SigInit
    /\ [][SigNext]_vars
    /\ WF_vars(BuildNext)
    /\ WF_vars(RunNext)
    /\ WF_vars(WorkerTake)
    /\ WF_vars(WorkerDone)
    /\ WF_vars(WorkerExit)
    /\ WF_vars(PrintWorker)
    /\ WF_vars(PrintNextLine)
    /\ WF_vars(SchedExitKill)

\* How the scheduler process ended.
ExitStatus ==
    CASE pc \in {"done", "skipped"} -> "0"
      [] pc \in {"fatal", "crash"} -> "1"
      [] pc = "killed" -> "SIGKILL"
      [] OTHER -> "running"

\* The signal n is delivered to process q.
SignalStep(q, n) == sig_log' = Append(sig_log, <<q, n>>)

\* The scheduler has received a signal.
SchedSignalled == \E i \in 1..Len(sig_log) : sig_log[i][1] = "scheduler"

\* Some process has received a second signal.
HardKilled ==
    \E i, j \in 1..Len(sig_log) : i < j /\ sig_log[i][1] = sig_log[j][1]

\* C18 - First signal in the scheduler: whenever it arrives after the
\* handlers are installed, the scheduler sets the kill flag and puts on the
\* print channel a flush for every job whose start it has recorded, then
\* the line 'Exiting on signal', then the sentinel; it then waits for the
\* printer, kills the process group and exits with status 1, unless a
\* second signal in some process kills the group before.
C18_FirstSignal ==
    /\ [][\A n \in Signals :
            (SignalStep("scheduler", n) /\ handlers["scheduler"][n] = "exit") =>
               /\ killed'
               /\ print_queue' =
                     print_queue
                       \o Flushes(jobs, InOrder(DOMAIN jobs, hashorder))
                       \o <<LinePrinter("Exiting on signal"), NoJob>>
               /\ sig_pc' = "join"]_vars
    /\ [][pc' = "killed" /\ sig_pc = "join" /\ sig_log' = sig_log =>
            printer # "run"]_vars
    /\ SchedSignalled ~> (HardKilled \/ (pc = "killed" /\ ExitStatus = "1"))

\* C19 - Two-stage signal handling: in the scheduler, in each worker and in
\* the printer the first SIGINT or SIGTERM sets the kill flag and makes
\* KillHandler the handler of both signals; the flag is never cleared; and
\* a signal delivered to a process whose handler is KillHandler kills the
\* whole process group.
C19_TwoStage ==
    /\ [][\A q \in Processes, n \in Signals :
            SignalStep(q, n) =>
               IF handlers[q][n] = "exit"
               THEN /\ killed'
                    /\ handlers'[q] = Handlers("kill")
                    /\ pc' # "killed"
               ELSE /\ handlers[q][n] = "kill"
                    /\ pc' = "killed"
                    /\ printer' = "killed"
                    /\ pool' = 0
                    /\ \A r \in Processes : handlers'[r] = Handlers("none")]_vars
    /\ [][killed => killed']_vars
    /\ [](\A i \in 1..Len(sig_log) :
            /\ killed
            /\ handlers[sig_log[i][1]] \in {Handlers("kill"), Handlers("none")})
    /\ [](\A q \in Processes :
            handlers[q] \in {Handlers("none"), Handlers("exit"), Handlers("kill")})

\* A worker got SIGINT and then SIGTERM, and the group was killed.
C19_Witness ==
    /\ sig_log = <<<<"worker1", "SIGINT">>, <<"worker1", "SIGTERM">>>>
    /\ pc = "killed"
    /\ killed

-----------------------------------------------------------------------------
(* Cycle break: the program on every graph over three packages *)

\* Every set of runtime dependencies between three packages, no package
\* depending on itself, with every install order of the three; the inputs
\* being closed under renaming, one iteration order stands for all.
CycleInputs ==
    {In(BuildPkgs, Merge(BuildPkgs), {<<e[1], e[2], RT>> : e \in E}, o, {}, {}) :
       E \in SUBSET {e \in BuildPkgs \X BuildPkgs : e[1] # e[2]},
       o \in {a \in Arrangements(BuildPkgs) : Len(a) = Cardinality(BuildPkgs)}}

CycleInit ==
    /\ \E in \in CycleInputs : InitOn(in)
    /\ opt_pretend = FALSE
    /\ hashorder = PkgSeq
    /\ opt_jobs = 1
    /\ load_avg = MaxLoadAvg
    /\ loadavg = MaxLoadAvg

CycleSpec == CycleInit /\ [][Next]_vars

\* p needs q in dm.
NeedsEdge(dm, p, q) == p \in DOMAIN dm /\ q \in dm[p].needs

\* p provides for q in dm.
ProvidesEdge(dm, p, q) == p \in DOMAIN dm /\ q \in dm[p].provides

\* The edge 'p needs q' of dm lies on a cycle: q reaches p along needs.
OnCycle(dm, p, q) ==
    q \in DOMAIN dm /\ p \in ReachFrom(dm, {q}, Cardinality(DOMAIN dm))

\* The dependencies of the input are a needs b and b needs a, and a comes
\* first in the install order.
TwoCycle(a, b) ==
    /\ a # b
    /\ {a, b} \subseteq DOMAIN deps_tree
    /\ \A p \in DOMAIN deps_tree :
          DOMAIN deps_tree[p].deps = IF p = a THEN {b} ELSE IF p = b THEN {a} ELSE {}
    /\ {a, b} \subseteq DOMAIN deps_info
    /\ deps_info[a] < deps_info[b]

-----------------------------------------------------------------------------
(* Pretend mode *)

BuildPhases == {"reverse", "prune", "sanitize", "tprovides"}

\* C21 - Pretend mode: with --pretend no worker pool and no printer is
\* created, nothing is put on the task channel, no worker installs
\* anything and no result is reported; after the graph is built the program
\* ends in the constructor with exit status 0.
C21_PretendMode ==
    opt_pretend =>
        /\ pool = 0
        /\ procs = 0
        /\ printer = "none"
        /\ post_log = <<>>
        /\ emerge_queue = <<>>
        /\ job_queue = <<>>
        /\ DOMAIN jobs = {}
        /\ \A p \in Pkgs : running[p] = 0
        /\ pc \in BuildPhases \cup {"init", "skipped"}
        /\ ExitStatus = IF pc = "skipped" THEN "0" ELSE "running"

\* A run with --pretend on a graph with packages to merge has ended.
C21_Witness ==
    /\ opt_pretend
    /\ pc = "skipped"
    /\ TotalJobs(deps_map) > 1

-----------------------------------------------------------------------------
(* The printer *)

\* A message leaves the print channel in this step.
Taken == Len(print_queue') < Len(print_queue)

\* C22 - Printer output is serialized: a message leaves the print channel
\* only when the printer has printed the last line of the message before
\* it, and it is the oldest message of the channel, whoever put it there
\* (Run, _Status, the scheduler's signal handler); the lines the printer
\* writes next are the remaining lines of that message, in order, unless a
\* signal makes it drop them; and the scheduler itself prints only when the
\* printer is not running.
C22_Serialized ==
    /\ [][Taken =>
            /\ printer = "run"
            /\ printing = <<>>
            /\ print_queue' = Tail(print_queue)
            /\ \/ Head(print_queue) = NoJob /\ printer' = "exited"
               \/ /\ Head(print_queue) # NoJob
                  /\ printing' = Tail(PrintOut(Head(print_queue)))]_vars
    /\ [][printing' # printing =>
            \/ Taken
            \/ printing # <<>> /\ printing' = Tail(printing)
            \/ printing' = <<>> /\ sig_log' # sig_log]_vars
    /\ [](printing # <<>> => printer \in {"run", "killed"})
    /\ [](\A d \in hist.direct : d[2] # "run" /\ d[3] = <<>>)

\* The printer is between the header and the footer of a job's log while
\* the next messages wait in the channel.
C22_Witness ==
    /\ printer = "run"
    /\ printing # <<>>
    /\ Len(print_queue) > 1
    /\ killed

-----------------------------------------------------------------------------
(* Dispatch priority *)

\* C23 - Dispatch priority: every package the dispatch loop pops from ready
\* has, at that moment, a score (-|tprovides|, binary, idx) that no entry of
\* ready undercuts, whether its entry was placed by the constructor or
\* pushed later by Finish.
C23_DispatchPriority == \A f \in hist.pops : f[1]

\* The loop has popped an entry of the initial heap and an entry pushed by
\* Finish, each while an entry with a greater score was waiting.
C23_Witness ==
    /\ <<TRUE, TRUE, TRUE>> \in hist.pops
    /\ <<TRUE, FALSE, TRUE>> \in hist.pops

-----------------------------------------------------------------------------
(* Tasks *)

\* The tasks of p that are posted and whose done event Run has not yet
\* taken: on the task channel, with a worker, or reported on the result
\* channel.
Outstanding(p) ==
    Occurrences(emerge_queue, p) + running[p]
      + Cardinality({i \in 1..Len(job_queue) :
                       job_queue[i].target = p /\ job_queue[i].done})

\* C24 - No duplicate dispatch: a package never has two outstanding tasks,
\* and it is in jobs exactly while it has one, from the post until Run has
\* taken its done event, also when the heap holds a second entry for it or
\* the retry queue holds it.
C24_NoDuplicateDispatch ==
    \A p \in Pkgs :
        /\ Outstanding(p) <= 1
        /\ (Outstanding(p) = 1) <=> (p \in DOMAIN jobs)

\* The dispatch loop has popped a second entry of a package that was in
\* jobs, and the package still has its one task.
C24_Witness ==
    /\ hist.skips = {"jobs"}
    /\ \E p \in DOMAIN jobs :
          /\ Outstanding(p) = 1
          /\ Occurrences(post_log, p) = 1
          /\ graph0[p].nodeps

-----------------------------------------------------------------------------
(* nomerge nodes *)

\* C25 - nomerge nodes are never executed: no package is put on the task
\* channel while its action is nomerge, be it a nomerge node of the
\* returned graph or a package demoted by Finish; Schedule calls Finish for
\* a nomerge node instead, which removes it from the graph unless it is a
\* nodeps node with needs left.
C25_NomergeNeverPosted ==
    /\ hist.nomerge_posts = {}
    /\ hist.nomerge_kept = {}
    /\ \A p \in Range(post_log) : graph0[p].action # "nomerge"
    /\ \A p \in hist.nomerge_sched : graph0[p].action = "nomerge"
    /\ \A p \in hist.demoted :
          Occurrences(post_log, p) \in
             IF graph0[p].action = "nomerge" THEN {0} ELSE 1..2
    /\ \A p \in DOMAIN deps_map :
          deps_map[p].action = "nomerge" =>
             p \notin DOMAIN jobs /\ Outstanding(p) = 0

\* The run has ended, and Schedule has finished a nomerge node of the
\* returned graph that lay between two packages to merge.
C25_Witness ==
    /\ pc = "done"
    /\ \E p \in hist.nomerge_sched :
          /\ p \notin Range(post_log)
          /\ \E q \in graph0[p].needs : q \in Range(post_log)
          /\ \E q \in graph0[p].provides : q \in Range(post_log)

-----------------------------------------------------------------------------
(* Attempts *)

\* C26 - At most two attempts: no package is put on the task channel more
\* than twice; a second post of a package is always the retry path's, which
\* posts a package once, after its first post; and a package that is in
\* failed has a task only from the retry path, the dispatch loop skipping
\* it when it pops it.
C26_AtMostTwoAttempts ==
    \A p \in Pkgs :
        /\ Occurrences(post_log, p) <= 2
        /\ (Occurrences(post_log, p) = 2) <=> (p \in hist.retry_posts)
        /\ (p \in failed /\ p \in DOMAIN jobs) => p \in hist.retry_posts

\* The dispatch loop has popped and skipped a package that was in failed,
\* and the retry path has posted it for the second time.
C26_Witness ==
    /\ "failed" \in hist.skips
    /\ \E p \in hist.retry_posts :
          /\ graph0[p].nodeps
          /\ Occurrences(post_log, p) = 2

-----------------------------------------------------------------------------
(* ReverseTree *)

\* The input tree gives p a dependency whose deptypes include blocker.
HasBlocker(p) ==
    /\ p \in DOMAIN deps_tree
    /\ \E dep \in DOMAIN deps_tree[p].deps :
          "blocker" \in deps_tree[p].deps[dep].deptypes

\* C27 - Blocker clears nodeps: when ReverseTree has processed the whole
\* input tree, every node with a dependency whose deptypes include blocker
\* has nodeps = FALSE, in whatever order the entries were visited.
C27_BlockerClearsNodeps ==
    pc = "prune" =>
        \A p \in DOMAIN deps_map : HasBlocker(p) => ~deps_map[p].nodeps

-----------------------------------------------------------------------------
(* ReverseTree on every tree over two packages, with every kind of edge *)

EdgePkgs == {"A", "B"}

\* The deptypes an edge of emerge's digraph may carry here.
DepTypeSets ==
    {{"blocker"}, {"buildtime"}, {"runtime"}, {"runtime_post"}, {"optional"},
     {"ignored"}, {"optional", "runtime_post"}, {"buildtime", "runtime_post"}}

\* Every choice of deptypes (or of no edge, the empty set) for each pair of
\* packages, a package and itself included, with every install list.
EdgeInputs ==
    {In(EdgePkgs, Merge(EdgePkgs),
        {<<e[1], e[2], t[e]>> : e \in {x \in EdgePkgs \X EdgePkgs : t[x] # {}}},
        o, {}, {}) :
       t \in [EdgePkgs \X EdgePkgs -> DepTypeSets \cup {{}}],
       o \in Arrangements(EdgePkgs)}

EdgeInit ==
    /\ \E in \in EdgeInputs : InitOn(in)
    /\ opt_pretend = FALSE
    /\ opt_jobs = 1
    /\ load_avg = 0
    /\ loadavg = MaxLoadAvg

EdgeSpec == EdgeInit /\ [][BuildNext]_vars

\* The deptypes of the edge from parent to child in the input tree; empty
\* when there is no such edge.
DepTypes(parent, child) ==
    IF parent \in DOMAIN deps_tree /\ child \in DOMAIN deps_tree[parent].deps
    THEN deps_tree[parent].deps[child].deptypes
    ELSE {}

\* C28 - Scheduling edges: when ReverseTree has processed the input tree,
\* parent needs child, and child provides parent, exactly for the edges of
\* the tree whose deptypes contain blocker, buildtime or runtime; an edge
\* with none of the three leaves no needs and no provides entry.
C28_SchedulingEdges ==
    pc = "prune" =>
        \A parent, child \in Pkgs :
            LET ordering == DepTypes(parent, child)
                              \cap {"blocker", "buildtime", "runtime"} # {}
            IN  /\ NeedsEdge(deps_map, parent, child) <=> ordering
                /\ ProvidesEdge(deps_map, child, parent) <=> ordering

\* ReverseTree has processed a tree with an edge that orders two packages
\* only in part of its deptypes, and an edge that does not order them.
C28_Witness ==
    /\ pc = "prune"
    /\ DepTypes("A", "B") = {"buildtime", "runtime_post"}
    /\ DepTypes("B", "A") = {"optional", "runtime_post"}
    /\ NeedsEdge(deps_map, "A", "B")
    /\ ~NeedsEdge(deps_map, "B", "A")

-----------------------------------------------------------------------------
(* RemoveUnusedPackages on every graph over four packages *)

\* Every set of runtime dependencies between the four packages, no package
\* depending on itself, with every set of packages that has A as the
\* install list (the dependencies being arbitrary, A stands for any package
\* that stays); the pruning looks at the members of the list only, and
\* visits the packages in sorted order, so one list per set and one
\* iteration order do.
PruneInputs ==
    {In(Pkgs, Merge(Pkgs), {<<e[1], e[2], RT>> : e \in E},
        InOrder(S, PkgSeq), {}, {}) :
       E \in SUBSET {e \in Pkgs \X Pkgs : e[1] # e[2]},
       S \in {T \in SUBSET Pkgs : "A" \in T}}

PruneInit ==
    /\ \E in \in PruneInputs : InitOn(in)
    /\ opt_pretend = FALSE
    /\ hashorder = PkgSeq
    /\ opt_jobs = 1
    /\ load_avg = 0
    /\ loadavg = MaxLoadAvg

PruneSpec == PruneInit /\ [][BuildNext]_vars

\* The nodes that n steps along needs lead to from the nodes of S when
\* only nodes of the set through may be passed on the way.
RECURSIVE NeedsVia(_, _, _, _)
NeedsVia(dm, S, through, n) ==
    IF n = 0 THEN S
    ELSE NeedsVia(dm,
                  S \cup UNION {dm[x].needs \cap DOMAIN dm :
                                  x \in S \cap through},
                  through, n - 1)

\* The nodes a path along needs leads to from a, all of whose intermediate
\* nodes are in through.
NeedsThrough(dm, a, through) ==
    NeedsVia(dm, dm[a].needs \cap DOMAIN dm, through, Cardinality(DOMAIN dm))

\* C29 - Prune by contraction: RemoveUnusedPackages leaves exactly the
\* nodes of the install list; it gives no node a need or a provide of
\* itself that the node did not have; and for two distinct remaining nodes
\* a and b, a needs b afterwards exactly when before there was a path from
\* a to b along needs whose intermediate nodes were all pruned.
C29_PruneByContraction ==
    [][pc = "prune" =>
         LET pruned == DOMAIN deps_map \ DOMAIN deps_info
         IN  /\ DOMAIN deps_map' = DOMAIN deps_map \cap DOMAIN deps_info
             /\ \A a \in DOMAIN deps_map' :
                   /\ a \in deps_map'[a].needs => a \in deps_map[a].needs
                   /\ a \in deps_map'[a].provides => a \in deps_map[a].provides
                   /\ \A b \in DOMAIN deps_map' \ {a} :
                         b \in deps_map'[a].needs
                            <=> b \in NeedsThrough(deps_map, a, pruned)]_vars

\* A needs B, B and C need each other and C needs D in the tree, B and C
\* are not on the install list, and after the pruning A needs D and
\* nothing else.
C29_Witness ==
    /\ pc = "sanitize"
    /\ DOMAIN deps_info = {"A", "D"}
    /\ \A p, q \in Pkgs :
          (DepTypes(p, q) # {}) <=>
             (<<p, q>> \in {<<"A", "B">>, <<"B", "C">>, <<"C", "B">>,
                            <<"C", "D">>})
    /\ DOMAIN deps_map = {"A", "D"}
    /\ deps_map["A"].needs = {"D"}
    /\ deps_map["D"].provides = {"A"}

-----------------------------------------------------------------------------
(* FindRecursiveProvides *)

\* The nodes that up to n further steps along provides lead to from the
\* nodes of S.
RECURSIVE ProvidesFrom(_, _, _)
ProvidesFrom(dm, S, n) ==
    IF n = 0 THEN S
    ELSE ProvidesFrom(dm,
                      S \cup UNION {dm[x].provides \cap DOMAIN dm : x \in S},
                      n - 1)

\* The nodes reachable from p by one or more provides edges.
ProvidesReach(dm, p) ==
    ProvidesFrom(dm, dm[p].provides \cap DOMAIN dm, Cardinality(DOMAIN dm))

\* C30 - Transitive provides: in the graph GenDependencyGraph returns,
\* tprovides of every node is exactly the set of nodes reachable from it
\* by one or more provides edges, whatever the order in which the nodes
\* are visited.
C30_TransitiveProvides ==
    pc = "init" =>
        \A p \in DOMAIN deps_map :
            deps_map[p].tprovides = ProvidesReach(deps_map, p)

\* The graph returned has a node whose tprovides holds a package that is
\* not among its provides, and the visit started at a node other than the
\* first in sorted order.
C30_Witness ==
    /\ pc = "init"
    /\ hashorder # PkgSeq
    /\ \E p \in DOMAIN deps_map :
          /\ deps_map[p].tprovides # deps_map[p].provides
          /\ Cardinality(deps_map[p].tprovides) >= 2

-----------------------------------------------------------------------------
(* SanitizeTree: termination *)

\* The edges 'p needs q' of dm.
NeedsEdges(dm) == {<<p, q>> : p \in DOMAIN dm, q \in Pkgs} \cap
                  {e \in Pkgs \X Pkgs : e[2] \in dm[e[1]].needs}

\* From p a path of one or more edges of the set E leads to q.
RECURSIVE AlongEdges(_, _, _)
AlongEdges(E, S, n) ==
    IF n = 0 THEN S
    ELSE AlongEdges(E, S \cup {e[2] : e \in {x \in E : x[1] \in S}}, n - 1)

HasCycle(E) ==
    \E e \in E : e[1] \in AlongEdges(E, {e[2]}, Cardinality(Pkgs))

\* What a pass of SanitizeTree has found and is about to delete.
FoundCycles == FindCycles(deps_map, hashorder)

\* In a pass of SanitizeTree on the pruned graph, in which every node has
\* an idx, that finds cycles, the edges the pass is to delete are edges of
\* the graph and the found edges it leaves form no cycle: every found cycle
\* loses an edge and the graph gets smaller with every pass.
PassBreaksCycles ==
    pc = "sanitize" =>
        /\ \A p \in DOMAIN deps_map : deps_map[p].idx # NoIdx
        /\ FoundCycles # {} =>
             /\ EdgesToBreak(deps_map, FoundCycles) # {}
             /\ EdgesToBreak(deps_map, FoundCycles) \subseteq NeedsEdges(deps_map)
             /\ ~HasCycle(FoundCycles \ EdgesToBreak(deps_map, FoundCycles))

\* C31 - Cycle Break terminates: every pass of SanitizeTree that finds a
\* cycle deletes at least one edge of it, so the loop ends after finitely
\* many passes, and the builder never ends in an exception.
C31_CycleBreakTerminates ==
    /\ PassBreaksCycles
    /\ pc # "crash"

-----------------------------------------------------------------------------
(* The sentinel of the task channel *)

\* The packages on the task channel.
Tasks == {i \in 1..Len(emerge_queue) : emerge_queue[i] # Sentinel}

\* A worker has taken the sentinel and returned.
SentinelTaken == pool' < pool /\ ~killed

\* C32 - Sentinel propagation: _Exit puts one sentinel on the task channel;
\* a worker returns only on taking the sentinel and puts it back as it
\* does; when the sentinel is on the channel every package put there
\* before it has been taken, so no worker leaves a task behind; and every
\* worker of the pool takes the sentinel and returns in the end.
C32_SentinelPropagation ==
    /\ [][SentinelTaken =>
            /\ pool' = pool - 1
            /\ Head(emerge_queue) = Sentinel
            /\ emerge_queue' = <<Sentinel>>
            /\ Len(job_queue) + Cardinality(DOMAIN jobs) = 0]_vars
    /\ [](Occurrences(emerge_queue, Sentinel) =
            IF exit_pc = "none" THEN 0 ELSE 1)
    /\ [](exit_pc # "none" => Tasks = {} /\ Busy = {})
    /\ (exit_pc = "join") ~> (pool = 0 /\ exit_pc # "join")

\* Two workers have taken the sentinel one after the other, after both had
\* installed packages, and _Exit has gone on.
C32_Witness ==
    /\ procs = 2
    /\ pool = 0
    /\ exit_pc = "returned"
    /\ emerge_queue = <<Sentinel>>
    /\ Len(post_log) >= 2
    /\ pc = "done"

-----------------------------------------------------------------------------
(* EmergeWorker and EmergeProcess, statement by statement                   *)
(* emerge_worker is one worker process of the pool with the two channels it *)
(* uses: pc is where it is, task_queue and job_queue are the channels,      *)
(* KILLED is the event, target and retcode are its locals, traceback says   *)
(* for which targets a traceback was written to the log; the rest is        *)
(* history: outcome is how the install of a target ended, posted is every   *)
(* event the worker put on job_queue, processed the events Run has taken,   *)
(* taken the targets the worker went on with after the check of KILLED,     *)
(* forks the targets it forked a child for with KILLED as it was then.      *)

\* The scheduler has nothing to do but to take events: its own state stays
\* as it is.
ParkedScheduler ==
    /\ deps_tree = EmptyMap
    /\ deps_info = EmptyMap
    /\ binpkg = EmptyMap
    /\ pc = "init"
    /\ deps_map = EmptyMap
    /\ graph0 = EmptyMap
    /\ hashorder = PkgSeq
    /\ opt_jobs = 1
    /\ load_avg = 0
    /\ loadavg = MaxLoadAvg
    /\ InitRest

WorkerPkgs == {"A", "B"}

\* The worker is about to wait for its first target; the scheduler has put
\* up to two packages on the task channel.
WorkerInit ==
    /\ ParkedScheduler
    /\ opt_pretend \in BOOLEAN
    /\ job_log = NoLog
    /\ \E q \in Arrangements(WorkerPkgs) :
         emerge_worker =
           [pc |-> "get", task_queue |-> q, job_queue |-> <<>>,
            KILLED |-> FALSE, target |-> Sentinel, retcode |-> 0,
            traceback |-> {}, outcome |-> EmptyMap, posted |-> <<>>,
            processed |-> <<>>, taken |-> <<>>, forks |-> {}]

\* EmergeJobState(target, pkgname, done, filename, start_timestamp, retcode)
\* as far as Run looks at it.
EmergeJobState(target, done, retcode) ==
    [target |-> target, done |-> done, retcode |-> retcode]

\* job_queue.put(job).
PutJob(w, job) ==
    [w EXCEPT !.job_queue = Append(@, job), !.posted = Append(@, job)]

\* Lines 971-979: the worker takes the next target; on the sentinel it puts
\* it back and returns, with KILLED set it returns.
EmergeWorkerGet ==
    /\ emerge_worker.pc = "get"
    /\ emerge_worker.task_queue # <<>>
    /\ LET w == emerge_worker
           target == Head(w.task_queue)
       IN  emerge_worker' =
             IF target = Sentinel
             THEN [w EXCEPT !.task_queue = Append(Tail(@), target),
                            !.pc = "returned"]
             ELSE IF w.KILLED
             THEN [w EXCEPT !.task_queue = Tail(@), !.pc = "returned"]
             ELSE [w EXCEPT !.task_queue = Tail(@), !.target = target,
                            !.taken = Append(@, target), !.pc = "start"]
    /\ UNCHANGED <<inputs, job_log, loadavg, graph0, pc, deps_map, sched>>

\* Lines 981-988: the log file is made and the start event is put.
EmergeWorkerStart ==
    /\ emerge_worker.pc = "start"
    /\ emerge_worker' =
         [PutJob(emerge_worker,
                 EmergeJobState(emerge_worker.target, FALSE, Sentinel))
            EXCEPT !.pc = "install"]
    /\ UNCHANGED <<inputs, job_log, loadavg, graph0, pc, deps_map, sched>>

\* Mutant: KILLED is checked before anything is installed.
EmergeWorkerInstallChecked ==
    /\ emerge_worker.pc = "install"
    /\ LET w == emerge_worker
       IN  IF w.KILLED
           THEN emerge_worker' = [w EXCEPT !.pc = "returned"]
           ELSE IF opt_pretend
           THEN emerge_worker' =
                  [w EXCEPT !.retcode = 0, !.pc = "done",
                            !.outcome = SetKey(@, w.target, "pretend")]
           ELSE \/ emerge_worker' =
                     [w EXCEPT !.retcode = 1, !.pc = "done",
                               !.traceback = @ \cup {w.target},
                               !.outcome = SetKey(@, w.target, "worker_raised")]
                \/ emerge_worker' =
                     [w EXCEPT !.forks = @ \cup {<<w.target, w.KILLED>>},
                               !.pc = "wait"]
    /\ UNCHANGED <<inputs, job_log, loadavg, graph0, pc, deps_map, sched>>

\* Lines 989-1004 up to the fork: with --pretend nothing is installed; else
\* the Scheduler is made, which may raise (the traceback goes to the log,
\* retcode is 1), and EmergeProcess forks the child (line 902).  KILLED is
\* not looked at.
EmergeWorkerInstall ==
    /\ emerge_worker.pc = "install"
    /\ LET w == emerge_worker
       IN  IF opt_pretend
           THEN emerge_worker' =
                  [w EXCEPT !.retcode = 0, !.pc = "done",
                            !.outcome = SetKey(@, w.target, "pretend")]
           ELSE \/ emerge_worker' =
                     [w EXCEPT !.retcode = 1, !.pc = "done",
                               !.traceback = @ \cup {w.target},
                               !.outcome = SetKey(@, w.target, "worker_raised")]
                \/ emerge_worker' =
                     [w EXCEPT !.forks = @ \cup {<<w.target, w.KILLED>>},
                               !.pc = "wait"]
    /\ UNCHANGED <<inputs, job_log, loadavg, graph0, pc, deps_map, sched>>

\* The values scheduler.merge() returns in the model.
MergeRetvals == {0, 1}

\* Line 939: os._exit(retval) keeps the low eight bits of retval.
ExitCode(retval) == retval % 256

\* Line 941: os.waitpid(pid, 0)[1] of a child that left with _exit is the
\* exit code in the high byte of a 16-bit status.
WaitStatus(exitcode) == exitcode * 256

\* EmergeProcess, lines 902-941: the child merges and leaves with the
\* value merge returned, or an error is raised in it, the traceback goes to
\* the log and it leaves with 1; the worker gets the child's wait status.
EmergeProcess ==
    /\ emerge_worker.pc = "wait"
    /\ LET w == emerge_worker
       IN  \/ \E retval \in MergeRetvals :
                emerge_worker' =
                  [w EXCEPT !.retcode = WaitStatus(ExitCode(retval)),
                            !.outcome = SetKey(@, w.target,
                                               IF retval = 0 THEN "merged"
                                               ELSE "failed"),
                            !.pc = "done"]
           \/ emerge_worker' =
                [w EXCEPT !.retcode = WaitStatus(ExitCode(1)),
                          !.traceback = @ \cup {w.target},
                          !.outcome = SetKey(@, w.target, "child_raised"),
                          !.pc = "done"]
    /\ UNCHANGED <<inputs, job_log, loadavg, graph0, pc, deps_map, sched>>

\* Lines 1007-1012: with KILLED set the worker returns, else it puts the
\* done event and goes back to the top of its loop.
EmergeWorkerDone ==
    /\ emerge_worker.pc = "done"
    /\ LET w == emerge_worker
       IN  emerge_worker' =
             IF w.KILLED
             THEN [w EXCEPT !.pc = "returned"]
             ELSE [PutJob(w, EmergeJobState(w.target, TRUE, w.retcode))
                     EXCEPT !.pc = "get"]
    /\ UNCHANGED <<inputs, job_log, loadavg, graph0, pc, deps_map, sched>>

\* ExitHandler, lines 877-879, of any process: KILLED.set().
EmergeWorkerSignal ==
    /\ emerge_worker.pc \notin {"none", "returned"}
    /\ ~emerge_worker.KILLED
    /\ emerge_worker' = [emerge_worker EXCEPT !.KILLED = TRUE]
    /\ UNCHANGED <<inputs, job_log, loadavg, graph0, pc, deps_map, sched>>

\* Run, line 1360: the scheduler takes the next event.
RunGetJob ==
    /\ emerge_worker.pc # "none"
    /\ emerge_worker.job_queue # <<>>
    /\ emerge_worker' =
         [emerge_worker EXCEPT !.job_queue = Tail(@),
                               !.processed = Append(@, Head(emerge_worker.job_queue))]
    /\ UNCHANGED <<inputs, job_log, loadavg, graph0, pc, deps_map, sched>>

\* _Exit, line 1313: with every event processed and nothing on the task
\* channel the scheduler puts the sentinel.
ExitPutSentinel ==
    /\ emerge_worker.pc = "get"
    /\ emerge_worker.task_queue = <<>>
    /\ emerge_worker.job_queue = <<>>
    /\ emerge_worker' = [emerge_worker EXCEPT !.task_queue = <<Sentinel>>]
    /\ UNCHANGED <<inputs, job_log, loadavg, graph0, pc, deps_map, sched>>

WorkerNext ==
    \/ EmergeWorkerGet
    \/ EmergeWorkerStart
    \/ EmergeWorkerInstall
    \/ EmergeProcess
    \/ EmergeWorkerDone
    \/ EmergeWorkerSignal
    \/ RunGetJob
    \/ ExitPutSentinel

WorkerSpec == WorkerInit /\ [][WorkerNext]_vars

\* The events of target among the events of s, in order.
EventsOf(s, target) == SelectSeq(s, LAMBDA e : e.target = target)

\* The worker has gone past the statement that puts the start event, the
\* done event, of the last target it took.
PastStart(w, target) ==
    \/ w.target # target
    \/ w.pc \notin {"start"}

PastDone(w, target) ==
    \/ w.target # target
    \/ w.pc \in {"get", "returned"}

\* What is true of the events whatever the retcode: a target the worker
\* took with KILLED clear has exactly one start event once the worker is
\* past line 988, and no event before; its done event, if any, is the one
\* event after the start event; a worker that is past line 1012 for the
\* target has put the done event unless it has returned on KILLED; Run
\* takes the events in the order they were put; an error is never raised
\* out of the worker; and a traceback is in the log exactly for the
\* targets whose install raised an error.
EventProtocol ==
    LET w == emerge_worker
    IN  w.pc # "none" =>
          /\ \A target \in WorkerPkgs :
               LET events == EventsOf(w.posted, target)
                   took == target \in Range(w.taken)
               IN  /\ ~took => events = <<>>
                   /\ took =>
                        /\ Len(events) <= 2
                        /\ (Len(events) >= 1) <=> PastStart(w, target)
                        /\ Len(events) >= 1 => ~events[1].done
                        /\ Len(events) = 2 =>
                             /\ events[2].done
                             /\ target \in DOMAIN w.outcome
                        /\ (PastStart(w, target) /\ PastDone(w, target)) =>
                             \/ Len(events) = 2
                             \/ w.KILLED /\ w.pc = "returned"
                   /\ (target \in w.traceback) <=>
                         /\ target \in DOMAIN w.outcome
                         /\ w.outcome[target] \in {"worker_raised", "child_raised"}
          /\ Len(w.processed) <= Len(w.posted)
          /\ w.processed = SubSeq(w.posted, 1, Len(w.processed))
          /\ w.processed \o w.job_queue = w.posted
          /\ w.pc \in {"get", "start", "install", "wait", "done", "returned"}

\* The retcode the done event of an install that ended as outcome carries.
Retcode(outcome) ==
    CASE outcome \in {"pretend", "merged"} -> 0
      [] outcome = "worker_raised" -> 1
      [] outcome \in {"failed", "child_raised"} -> WaitStatus(1)

\* What the code does: the done event of a target carries the retcode of
\* how its install ended.
DoneCarriesRetcode ==
    emerge_worker.pc # "none" =>
      \A i \in 1..Len(emerge_worker.posted) :
         LET e == emerge_worker.posted[i]
         IN  e.done => e.retcode = Retcode(emerge_worker.outcome[e.target])

\* C33 - Worker event protocol: for every target a worker takes while
\* KILLED is clear it puts exactly one start event and afterwards, unless
\* KILLED has been set meanwhile, exactly one done event carrying the exit
\* code, and Run processes the start event before the done event; an error
\* raised while running the install is written to the log, is never raised
\* out of the worker and is reported as retcode 1.
C33_WorkerEventProtocol ==
    /\ EventProtocol
    /\ emerge_worker.pc # "none" =>
         \A i \in 1..Len(emerge_worker.posted) :
            LET e == emerge_worker.posted[i]
            IN  (e.done /\ e.target \in emerge_worker.traceback) =>
                  e.retcode = 1

\* The targets a child was forked for.
Forked(w) == {f[1] : f \in w.forks}

\* The worker has gone past lines 989-1001 for the last target it took.
PastInstall(w, target) ==
    \/ w.target # target
    \/ w.pc \in {"wait", "done", "get", "returned"}

\* C34 (as amended) - Worker cancellation points: a worker looks at KILLED
\* at two places only, after it has taken a target and before it puts the
\* start event (line 978), and after the install and before it puts the
\* done event (line 1007).  Between the start event and the fork it does
\* not look: for every target whose start event it has put it goes on to
\* fork the child, KILLED set or not, unless --pretend is given or making
\* the Scheduler raised; a worker that has returned has taken the
\* sentinel or found KILLED set, and a target without done event whose
\* install is over is the last target of a worker that found KILLED set.
C34_CancellationPoints ==
    LET w == emerge_worker
    IN  w.pc # "none" =>
          /\ \A target \in Range(w.taken) :
               /\ PastInstall(w, target) =>
                    \/ target \in Forked(w)
                    \/ /\ target \in DOMAIN w.outcome
                       /\ w.outcome[target] \in {"pretend", "worker_raised"}
               /\ (PastDone(w, target) /\ Len(EventsOf(w.posted, target)) < 2) =>
                    /\ w.KILLED
                    /\ w.pc = "returned"
                    /\ w.target = target
                    /\ target \in DOMAIN w.outcome
          /\ w.pc = "returned" => (w.KILLED \/ Sentinel \in Range(w.task_queue))
          /\ \A f \in w.forks : f[1] \in Range(w.taken)

\* C34 as claimed: no child is forked with KILLED set.
C34_NoForkWhenKilled ==
    emerge_worker.pc # "none" => \A f \in emerge_worker.forks : ~f[2]

\* KILLED was set after the start event of "A" was put and before the
\* fork; the child was forked and has merged "A", and the worker has
\* returned without a done event.
C34_Witness ==
    /\ emerge_worker.pc = "returned"
    /\ <<"A", TRUE>> \in emerge_worker.forks
    /\ emerge_worker.outcome["A"] = "merged"
    /\ Len(EventsOf(emerge_worker.posted, "A")) = 1

-----------------------------------------------------------------------------
(* One job's log file                                                       *)
(* job_log is the log file of one job with everything that touches it: the *)
(* child that writes it, the scheduler that asks for dumps of it and       *)
(* deletes it, and the printer that reads and deletes it.  file says       *)
(* whether the name is there, data is what the child has written ("n" is a *)
(* newline, "c" another character), child is "running" or "exited",        *)
(* retcode the job's, event whether the done event is "none", "queued" or  *)
(* "processed", in_jobs whether self._jobs has the job, sched where the    *)
(* scheduler is ("run", "del" between lines 1381 and 1382, "handler" after *)
(* its ExitHandler), dumps the interim dumps asked for, queue the          *)
(* JobPrinter messages on the print channel, printer where the printer is  *)
(* ("get", "open" after the header, "dead"), msg its message, seek         *)
(* seek_locations.get(filename, 0); the rest is history: seeks the cursors *)
(* saved, pieces what was printed as <<first, last>> positions of data,    *)
(* unlinks the number of os.unlink calls that found the file, enoent       *)
(* whether the printer opened a name that was not there.                   *)

\* The characters the child writes to the log at most.
MaxLog == 3

\* The interim dumps _Status asks for at most.
MaxDumps == 2

LogChars == {"c", "n"}

\* JobPrinter(job, unlink) as the printer gets it: a copy of the job.
LogPrinter(done, unlink) == [done |-> done, unlink |-> unlink]

\* The worker has made the file and put the start event, Run has processed
\* it; the child is about to write.
LogInit ==
    /\ ParkedScheduler
    /\ opt_pretend = FALSE
    /\ emerge_worker = NoWorker
    /\ \E show \in BOOLEAN :
         job_log =
           [pc |-> "run", show_output |-> show, file |-> "exists",
            data |-> <<>>, child |-> "running", retcode |-> 0,
            event |-> "none", in_jobs |-> TRUE, sched |-> "run", dumps |-> 0,
            queue |-> <<>>, printer |-> "get",
            msg |-> LogPrinter(FALSE, FALSE), seek |-> 0, seeks |-> <<>>,
            pieces |-> <<>>, unlinks |-> 0, enoent |-> FALSE]

\* The child writes a character to fd 1 or 2 (lines 914-919).
LogWrite ==
    /\ job_log.pc = "run"
    /\ job_log.child = "running"
    /\ Len(job_log.data) < MaxLog
    /\ \E c \in LogChars :
         job_log' = [job_log EXCEPT !.data = Append(@, c)]
    /\ UNCHANGED <<inputs, emerge_worker, loadavg, graph0, pc, deps_map, sched>>

\* The child leaves (line 938) and the worker puts the done event (line
\* 1012).
LogChildExit ==
    /\ job_log.pc = "run"
    /\ job_log.child = "running"
    /\ \E retval \in MergeRetvals :
         job_log' = [job_log EXCEPT !.child = "exited",
                                    !.retcode = WaitStatus(ExitCode(retval)),
                                    !.event = "queued"]
    /\ UNCHANGED <<inputs, emerge_worker, loadavg, graph0, pc, deps_map, sched>>

\* _Status, lines 1255-1260: the job has had no output for interval
\* seconds, its output so far is to be printed.
LogStatus ==
    /\ job_log.pc = "run"
    /\ job_log.sched = "run"
    /\ job_log.in_jobs
    /\ job_log.dumps < MaxDumps
    /\ job_log' = [job_log EXCEPT !.queue = Append(@, LogPrinter(FALSE, FALSE)),
                                  !.dumps = @ + 1]
    /\ UNCHANGED <<inputs, emerge_worker, loadavg, graph0, pc, deps_map, sched>>

\* Run, lines 1377-1381: the done event is taken; the output is to be
\* printed and the file deleted by the printer, or the file is deleted
\* here.
LogRunDone ==
    /\ job_log.pc = "run"
    /\ job_log.sched = "run"
    /\ job_log.event = "queued"
    /\ job_log' =
         IF job_log.show_output \/ job_log.retcode # 0
         THEN [job_log EXCEPT !.queue = Append(@, LogPrinter(TRUE, TRUE)),
                              !.event = "processed", !.sched = "del"]
         ELSE [job_log EXCEPT !.file = "deleted", !.unlinks = @ + 1,
                              !.event = "processed", !.sched = "del"]
    /\ UNCHANGED <<inputs, emerge_worker, loadavg, graph0, pc, deps_map, sched>>

\* Run, line 1382: del self._jobs[target].
LogRunDel ==
    /\ job_log.pc = "run"
    /\ job_log.sched = "del"
    /\ job_log' = [job_log EXCEPT !.in_jobs = FALSE, !.sched = "run"]
    /\ UNCHANGED <<inputs, emerge_worker, loadavg, graph0, pc, deps_map, sched>>

\* The scheduler's ExitHandler, lines 1189-1191, on a signal wherever Run
\* is: the output of every job in self._jobs is to be printed and its file
\* deleted.
LogExitHandler ==
    /\ job_log.pc = "run"
    /\ job_log.sched \in {"run", "del"}
    /\ job_log' =
         IF job_log.in_jobs
         THEN [job_log EXCEPT !.queue = Append(@, LogPrinter(FALSE, TRUE)),
                              !.sched = "handler"]
         ELSE [job_log EXCEPT !.sched = "handler"]
    /\ UNCHANGED <<inputs, emerge_worker, loadavg, graph0, pc, deps_map, sched>>

\* PrintWorker, line 1105, and JobPrinter.Print, lines 1038-1052: the
\* printer takes a message and prints the header.
LogPrintGet ==
    /\ job_log.pc = "run"
    /\ job_log.printer = "get"
    /\ job_log.queue # <<>>
    /\ job_log' = [job_log EXCEPT !.msg = Head(job_log.queue),
                                  !.queue = Tail(@), !.printer = "open"]
    /\ UNCHANGED <<inputs, emerge_worker, loadavg, graph0, pc, deps_map, sched>>

\* The last position of the line of data that begins at position a: its
\* newline, or the end of data.
RECURSIVE LineEnd(_, _)
LineEnd(data, a) ==
    IF a >= Len(data) \/ data[a] = "n" THEN a ELSE LineEnd(data, a + 1)

\* "for line in f" after f.seek(a - 1): the lines as <<first, last>>.
RECURSIVE ReadLines(_, _)
ReadLines(data, a) ==
    IF a > Len(data) THEN <<>>
    ELSE <<<<a, LineEnd(data, a)>>>> \o ReadLines(data, LineEnd(data, a) + 1)

\* f.tell() of the codecs reader is the position of the file underneath,
\* which the reader has read in chunks: with a log shorter than one chunk,
\* as all logs here are, the first readline has read all of it, and the
\* position is the end of the file whichever line is being printed.
Tell(data) == Len(data)

\* Lines 1058-1063: the cursor after the lines were gone through.
LastOutputSeek(data, seek) ==
    IF \E i \in 1..Len(ReadLines(data, seek + 1)) :
         data[ReadLines(data, seek + 1)[i][2]] = "n"
    THEN Tell(data)
    ELSE seek

\* JobPrinter.Print, lines 1055-1080: the file is opened, and an IOError
\* for a name that is not there ends the printer (line 1115); the lines
\* from the cursor on are printed, the cursor is saved, the footer is
\* printed and the file is deleted if the message says so.
LogPrintFile ==
    /\ job_log.pc = "run"
    /\ job_log.printer = "open"
    /\ LET j == job_log
       IN  job_log' =
             IF j.file # "exists"
             THEN [j EXCEPT !.printer = "dead", !.enoent = TRUE]
             ELSE [j EXCEPT !.pieces = @ \o ReadLines(j.data, j.seek + 1),
                            !.seek = LastOutputSeek(j.data, j.seek),
                            !.seeks = Append(@, LastOutputSeek(j.data, j.seek)),
                            !.file = IF j.msg.unlink THEN "deleted" ELSE @,
                            !.unlinks = IF j.msg.unlink THEN @ + 1 ELSE @,
                            !.printer = "get"]
    /\ UNCHANGED <<inputs, emerge_worker, loadavg, graph0, pc, deps_map, sched>>

LogNext ==
    \/ LogWrite
    \/ LogChildExit
    \/ LogStatus
    \/ LogRunDone
    \/ LogRunDel
    \/ LogExitHandler
    \/ LogPrintGet
    \/ LogPrintFile

LogSpec == LogInit /\ [][LogNext]_vars

\* The newline-terminated lines of data up to position n, as <<first,
\* last>>.
WholeLines(data, n) ==
    {<<a, b>> \in (1..n) \X (1..n) :
        /\ a <= b
        /\ data[b] = "n"
        /\ \A i \in a..(b - 1) : data[i] # "n"
        /\ a = 1 \/ data[a - 1] = "n"}

\* How often the piece l was printed.
TimesPrinted(pieces, l) ==
    Cardinality({i \in 1..Len(pieces) : pieces[i] = l})

\* C35 - Printer read cursor: across the JobPrinter messages for one
\* append-only log file the remembered cursor never decreases and is 0 or
\* just after a newline, every newline-terminated line of the file the
\* printer has gone over is printed exactly once, and a piece of the file
\* that is printed again by a later message is a trailing line without
\* newline.
C35_PrinterReadCursor ==
    LET j == job_log
    IN  j.pc # "none" =>
          /\ \A i \in 1..Len(j.seeks) :
               /\ i > 1 => j.seeks[i - 1] <= j.seeks[i]
               /\ j.seeks[i] = 0 \/ j.data[j.seeks[i]] = "n"
          /\ \A l \in WholeLines(j.data, j.seek) :
               TimesPrinted(j.pieces, l) = 1
          /\ \A i, k \in 1..Len(j.pieces) :
               (i < k /\ j.pieces[i][1] = j.pieces[k][1]) =>
                  j.data[j.pieces[i][2]] # "n"

\* C38 - Log file lifetime: the job's log file is deleted at most once and
\* never while a JobPrinter message for it is still on the print channel
\* or in the printer's hands before the file is opened, and the printer
\* never opens a log file that has been deleted.
C38_LogFileLifetime ==
    LET j == job_log
    IN  j.pc # "none" =>
          /\ j.unlinks <= 1
          /\ j.file = "deleted" => (j.queue = <<>> /\ j.printer # "open")
          /\ ~j.enoent

-----------------------------------------------------------------------------
(* Jobs, the retry queue and the graph *)

\* The packages with a task: in jobs, on the task channel, with a worker,
\* or with an event on the result channel.
InFlight ==
    DOMAIN jobs \cup (Range(emerge_queue) \ {Sentinel}) \cup Busy
      \cup {job_queue[i].target : i \in 1..Len(job_queue)}

\* What holds of jobs besides the action: every package with a task or an
\* event outstanding is in jobs and is a node of the graph, no package that
\* Finish made a nomerge node is in jobs, and Run has not ended in a
\* KeyError for jobs[p] of a done event.
JobsInGraph ==
    /\ \A p \in InFlight : p \in DOMAIN jobs /\ p \in DOMAIN deps_map
    /\ hist.demoted \cap DOMAIN jobs = {}
    /\ (job_queue # <<>> /\ pc = "crash") =>
         Head(job_queue).target \in DOMAIN jobs

\* C36 (as amended) - In-flight jobs stay in the graph: in every state
\* every package in jobs, and every package with a task or an event
\* outstanding, is a node of the graph whose action is not nomerge: merge,
\* or uninstall for an uninstall that no replacement took the place of.
\* No node is removed or made a nomerge node while its task is
\* outstanding, and processing a done event finds jobs[p] and node[p].
C36_InFlightInGraph ==
    /\ JobsInGraph
    /\ \A p \in InFlight : deps_map[p].action # "nomerge"

\* C36 as claimed: the action of every package in jobs is merge.
C36_InFlightIsMerge ==
    /\ JobsInGraph
    /\ \A p \in InFlight : deps_map[p].action = "merge"

\* The done event of an uninstall is next while a second package is in
\* jobs.
C36_Witness ==
    /\ pc = "get"
    /\ job_queue # <<>>
    /\ Head(job_queue).done
    /\ Head(job_queue).target \in DOMAIN jobs
    /\ deps_map[Head(job_queue).target].action = "uninstall"
    /\ Cardinality(DOMAIN jobs) = 2

\* C37 - Retry bookkeeping: in every state the retry queue has no
\* duplicates, and every package in it is in failed, is a node of the
\* graph and is not in jobs.
C37_RetryBookkeeping ==
    /\ \A i, k \in 1..Len(retry_queue) :
         retry_queue[i] = retry_queue[k] => i = k
    /\ \A p \in Range(retry_queue) :
         /\ p \in failed
         /\ p \in DOMAIN deps_map
         /\ p \notin DOMAIN jobs

\* Retry has posted a package, which is in jobs, while another package
\* waits in the retry queue.
C37_Witness ==
    /\ pc = "get"
    /\ retry_queue # <<>>
    /\ hist.retry_posts \cap DOMAIN jobs # {}

\* C39 - Installed at most once: a package whose install has ended with
\* exit code 0 is never put on the task channel again, also when the heap
\* still holds an entry for it or it stays in the graph as a nomerge node.
C39_InstalledOnce ==
    /\ hist.reposts = {}
    /\ \A p \in hist.installed :
         /\ p \notin InFlight
         /\ p \in DOMAIN deps_map => deps_map[p].action = "nomerge"

\* The run has ended after an installed package had stayed in the graph
\* as a nomerge node.
C39_Witness ==
    /\ pc = "done"
    /\ hist.installed \cap hist.demoted # {}
    /\ DOMAIN deps_map = {}
====
